---- MODULE Spec2Model ----
(***************************************************************************)
(* Model of the NCC forwarding subsystem of WeChatRobot:                   *)
(*   - the directory cache (ncc/db_manager.py, tables groups, group_lists, *)
(*     forward_lists, admins) and the raw Notion cache file                *)
(*     (ncc/notion_manager.py),                                            *)
(*   - the operator session state machine (ncc/ncc_manager.py,             *)
(*     handle_message / _handle_forward_state),                            *)
(*   - the forward dispatch queue and its worker thread                    *)
(*     (ncc/ncc_manager.py, _process_forward_queue).                       *)
(* Message contents are sequences of one-character strings, so that        *)
(* lower(), strip(), split("+") and int() are computed, not assumed.       *)
(***************************************************************************)
EXTENDS Integers, Sequences, FiniteSets, TLC

(***************************************************************************)
(* Bounds of the model.                                                    *)
(***************************************************************************)
\* inbound private messages handled by the intake thread in one behaviour
MaxInbound == 5
\* messages one session may collect
MaxCollected == 2
\* forward jobs put on the queue in one behaviour
MaxJobs == 2
\* failing Delivery Adapter calls injected in one behaviour of Spec
MaxFaults == 2
\* groups and messages of the first job SpecDispatch starts with, and the failing
\* Delivery Adapter calls injected in one behaviour of SpecDispatch
MaxJobGroups == 2
MaxJobMessages == 2
MaxDispatchFaults == 3
\* messages the intake thread handles in one behaviour of SpecInput
MaxInputs == 2
\* messages handled after an entry keyword sent during a session
MaxReentry == 7

(***************************************************************************)
(* Program constants.                                                      *)
(***************************************************************************)
\* _process_forward_queue: MAX_RETRIES = 3
MAX_RETRIES == 3
\* the selector value that means "all groups" (1 in list_ids)
ALL_GROUPS == 1
\* WxMsg.type values the code distinguishes
TYPE_TEXT == 1
TYPE_IMAGE == 3
TYPE_APP == 49

\* ForwardState
IDLE == "idle"
WAITING_CHOICE_MODE == "waiting_choice_mode"
WAITING_MESSAGE == "waiting_message"
WAITING_CHOICE == "waiting_choice"
WELCOME_MANAGE == "welcome_manage"
WELCOME_GROUP_CHOICE == "welcome_group_choice"
WELCOME_COLLECTING == "welcome_collecting"

ForwardState == {IDLE, WAITING_CHOICE_MODE, WAITING_MESSAGE, WAITING_CHOICE,
                 WELCOME_MANAGE, WELCOME_GROUP_CHOICE, WELCOME_COLLECTING}

\* the sender robot.py always routes to the NCC manager
SPECIAL_SENDER == "wxid_kscqqrkpg39121"

None == "None"

(***************************************************************************)
(* Universe of identities.                                                 *)
(***************************************************************************)
Senders == {"wxid_a1", SPECIAL_SENDER, "wxid_u1"}
GroupIds == {"g1", "g2", "g3"}
ListIds == {1, 2, 3}

(***************************************************************************)
(* Text: str.lower, str.strip, str.split, int.                             *)
(***************************************************************************)
Digits == <<"0", "1", "2", "3", "4", "5", "6", "7", "8", "9">>

IsDigit(c) == \E i \in 1..10 : Digits[i] = c

DigitVal(c) == (CHOOSE i \in 1..10 : Digits[i] = c) - 1

IsSpace(c) == c = " "

LowerChar(c) ==
    CASE c = "N" -> "n"
      [] c = "C" -> "c"
      [] OTHER -> c

\* str.lower()
Lower(s) == [i \in 1..Len(s) |-> LowerChar(s[i])]

RECURSIVE LStrip(_)
LStrip(s) == IF s # <<>> /\ IsSpace(Head(s)) THEN LStrip(Tail(s)) ELSE s

RECURSIVE RStrip(_)
RStrip(s) ==
    IF s # <<>> /\ IsSpace(s[Len(s)]) THEN RStrip(SubSeq(s, 1, Len(s) - 1)) ELSE s

\* str.strip()
Strip(s) == RStrip(LStrip(s))

\* str.split("+"): the pieces between the delimiters, empty pieces kept
RECURSIVE SplitPlus(_, _)
SplitPlus(s, cur) ==
    IF s = <<>> THEN <<cur>>
    ELSE IF Head(s) = "+" THEN <<cur>> \o SplitPlus(Tail(s), <<>>)
    ELSE SplitPlus(Tail(s), Append(cur, Head(s)))

Split(s) == SplitPlus(s, <<>>)

RECURSIVE DecimalValue(_, _)
DecimalValue(s, acc) ==
    IF s = <<>> THEN acc ELSE DecimalValue(Tail(s), 10 * acc + DigitVal(Head(s)))

\* an int(x) that takes the empty string for a number
IntOk_lenient(s) == \A i \in 1..Len(Strip(s)) : IsDigit(Strip(s)[i])

\* int(x) succeeds: surrounding blanks are ignored, the rest is one or more digits
IntOk(s) ==
    LET t == Strip(s)
    IN  t # <<>> /\ \A i \in 1..Len(t) : IsDigit(t[i])

\* int(x) for an x on which it succeeds
IntOf(s) == DecimalValue(Strip(s), 0)

\* [int(list_id.strip()) for list_id in msg.content.split("+")] raises ValueError
SelectorOk(content) ==
    LET parts == Split(content)
    IN  \A i \in 1..Len(parts) : IntOk(Strip(parts[i]))

\* the list the comprehension builds when no int() raises
SelectorIds(content) ==
    LET parts == Split(content)
    IN  [i \in 1..Len(parts) |-> IntOf(Strip(parts[i]))]

SeqRange(s) == {s[i] : i \in 1..Len(s)}

Perms(S) == {f \in [1..Cardinality(S) -> S] : \A i, j \in 1..Cardinality(S) : f[i] = f[j] => i = j}

(***************************************************************************)
(* State.                                                                  *)
(***************************************************************************)
VARIABLES
    \* DatabaseManager (data/ncc_data.db)
    groups,            \* table groups, in rowid order: rows [wxid, name, flags, welcome_url]
    group_lists,       \* table group_lists: pairs <<group_wxid, list_id>>
    forward_lists,     \* table forward_lists: the list_id column
    admins,            \* table admins: the wxid column
    \* NotionManager
    source,            \* the dataset the external directory holds
    notion_cache,      \* data/notion_cache.json: <<the dataset last fetched>>, <<>> when no file
    \* WelcomeService (welcome_messages.db)
    welcome_messages,  \* group_id -> the saved welcome messages
    \* NCCManager
    operator_states,   \* the dict operator_states, as the set of its (key, OperatorState) entries
    forward_queue,     \* the Queue forward_queue
    \* the worker thread, inside _process_forward_queue
    wpc,               \* "get": blocked in forward_queue.get(); "send": in the loops; "report"
    task,              \* the task taken from the queue
    gi, mi,            \* positions of the group loop and of the message loop (1-based)
    retries, success_count, failed_count,
    failed_messages, group_failed_messages,
    image_lock,        \* the Lock image_lock: "free", or the thread that holds it
    wphase,            \* the worker inside a pass of the retry loop: "run", "locked" (in the
                       \* with-block of _forward_message), "backoff" or "pacing" (in a sleep)
    attempt_ret,       \* what the last call of _forward_message gave the retry loop:
                       \* "true", "false" or "raise" ("none" before the first)
    sleeps,            \* the calls of time.sleep the worker made in its loops, in order
    \* what the program did, as seen from outside
    intake_pc,         \* the GetMessage thread: "loop" in its while loop, "dead" once left
    caught,            \* exceptions the "except Exception" of processMsg has logged so far
    inbound,           \* private messages handled so far
    last_msg,          \* the message the intake thread handled last
    out,               \* replies the intake thread sent while handling last_msg, in order
    calls,             \* Delivery Adapter invocations of the worker, in order
    reports,           \* replies the worker sent at the end of its jobs, in order
    enqueued,          \* forward jobs put on the queue so far
    submitted,         \* the tasks put on the queue so far, in the order of the puts
    dequeued,          \* forward jobs taken from the queue so far
    faults,            \* failing Delivery Adapter calls so far
    budget,            \* failing calls the environment may inject in this behaviour
    \* selector resolution on its own (SpecResolve)
    selector, resolved

dbvars == <<groups, group_lists, forward_lists, admins>>
dirvars == <<source, notion_cache>>
lockvars == <<image_lock, wphase, attempt_ret, sleeps>>
workervars == <<wpc, task, gi, mi, retries, success_count, failed_count,
                failed_messages, group_failed_messages, calls, reports, dequeued, faults,
                budget, lockvars>>
intakevars == <<operator_states, intake_pc, caught, inbound, last_msg, enqueued, submitted,
                welcome_messages>>
resolvevars == <<selector, resolved>>
vars == <<dbvars, dirvars, workervars, intakevars, forward_queue, out, resolvevars>>

(***************************************************************************)
(* The directory cache: tables and queries of DatabaseManager.             *)
(***************************************************************************)
GroupRow(w, n, we, af, sp, url) ==
    [wxid |-> w, name |-> n, welcome_enabled |-> we, allow_forward |-> af,
     allow_speak |-> sp, welcome_url |-> url]

GroupWxids(gs) == {gs[i].wxid : i \in 1..Len(gs)}

\* SELECT wxid FROM admins
get_admin_wxids == admins

\* SELECT wxid, name, welcome_enabled FROM groups WHERE welcome_enabled = 1
get_welcome_enabled_groups == SelectSeq(groups, LAMBDA r : r.welcome_enabled)

\* SELECT ... FROM groups WHERE allow_speak = 1
get_speak_enabled_groups == SelectSeq(groups, LAMBDA r : r.allow_speak)

\* SELECT g.wxid FROM groups g JOIN group_lists gl ON g.wxid = gl.group_wxid
\* WHERE gl.list_id = ?           (no condition on allow_forward)
get_groups_by_list_id(list_id) ==
    {w \in GroupWxids(groups) : <<w, list_id>> \in group_lists}

\* SELECT list_id, ... FROM forward_lists ORDER BY list_id
ForwardListsQuery == forward_lists

\* SELECT DISTINCT g.wxid FROM groups g JOIN group_lists gl ON g.wxid = gl.group_wxid
\* WHERE g.allow_forward = 1
AllGroupsQuery ==
    {groups[i].wxid : i \in {k \in 1..Len(groups) :
        /\ groups[k].allow_forward
        /\ \E p \in group_lists : p[1] = groups[k].wxid}}

\* the list query without "AND g.allow_forward = 1"
ListGroupsQuery_unfiltered(list_ids) ==
    {groups[i].wxid : i \in {k \in 1..Len(groups) :
        \E p \in group_lists : p[1] = groups[k].wxid /\ p[2] \in SeqRange(list_ids)}}

\* SELECT DISTINCT g.wxid FROM groups g JOIN group_lists gl ON g.wxid = gl.group_wxid
\* WHERE gl.list_id IN (list_ids) AND g.allow_forward = 1
ListGroupsQuery(list_ids) ==
    {groups[i].wxid : i \in {k \in 1..Len(groups) :
        /\ groups[k].allow_forward
        /\ \E p \in group_lists : p[1] = groups[k].wxid /\ p[2] \in SeqRange(list_ids)}}

\* the WAITING_CHOICE resolution: "if 1 in list_ids ... else ..."
ResolveGroups(list_ids) ==
    IF ALL_GROUPS \in SeqRange(list_ids) THEN AllGroupsQuery ELSE ListGroupsQuery(list_ids)

(***************************************************************************)
(* Messages, replies and the operator session store.                       *)
(***************************************************************************)
\* WxMsg, as far as the handlers read it
Msg(t, c) == [type |-> t, content |-> c]

\* wcf.send_text(text, receiver), by the kind of text and the number it shows
Reply(to, kind, n) == [to |-> to, kind |-> kind, n |-> n]

NCC == <<"n", "c", "c">>

\* OperatorState(): the dataclass defaults, under the key it is stored at
OperatorState(operator_id) ==
    [id |-> operator_id, state |-> IDLE, list_id |-> None,
     messages |-> <<>>, current_group |-> None]

HasState(S, operator_id) == \E s \in S : s.id = operator_id

\* operator_states[operator_id]
StateOf(S, operator_id) == CHOOSE s \in S : s.id = operator_id

\* the state of the operator's session; IDLE when the store has none, as
\* "operator_state and operator_state.state != ForwardState.IDLE" reads it
SessionState(S, operator_id) ==
    IF HasState(S, operator_id) THEN StateOf(S, operator_id).state ELSE IDLE

\* an in-place assignment to a field of a stored OperatorState
Update(S, old, new) == (S \ {old}) \cup {new}

\* a _get_operator_state that stores a fresh OperatorState without looking for one
_get_operator_state_fresh(S, operator_id) == S \cup {OperatorState(operator_id)}

\* _get_operator_state: "if operator_id not in self.operator_states: ...[id] = OperatorState()"
_get_operator_state(S, operator_id) ==
    IF ~HasState(S, operator_id) THEN S \cup {OperatorState(operator_id)} ELSE S

\* a _reset_operator_state that deletes nothing
_reset_operator_state_noop(S, operator_id) == S

\* a _reset_operator_state that clears the whole dict
_reset_operator_state_all(S, operator_id) == {}

\* _reset_operator_state: "del self.operator_states[operator_id]"
_reset_operator_state(S, operator_id) == {s \in S : s.id # operator_id}

\* a task tuple that holds the messages in the reverse of the collection order
Task_reversed(messages, grouplist, operator_id) ==
    [messages |-> [i \in 1..Len(messages) |-> messages[Len(messages) + 1 - i]],
     groups |-> grouplist, operator_id |-> operator_id]

\* the task tuple (messages, list(groups), msg.sender)
Task(messages, grouplist, operator_id) ==
    [messages |-> messages, groups |-> grouplist, operator_id |-> operator_id]

\* what one call of a handler does: the new session store, the tasks it put on the
\* queue, its replies in order, its return value, and the files it wrote
Tables == [groups |-> groups, group_lists |-> group_lists,
           forward_lists |-> forward_lists, admins |-> admins]

Result(S, put, replies, ret) ==
    [S |-> S, put |-> put, out |-> replies, ret |-> ret, sync |-> "none",
     db |-> Tables, cache |-> notion_cache, welcome |-> welcome_messages, waits |-> <<>>]

\* _send_menu
_send_menu(receiver) == Reply(receiver, "menu", 0)

(***************************************************************************)
(* Robot.sync_data_from_notion and NotionManager.fetch_notion_data.        *)
(***************************************************************************)
\* fetch_notion_data: the three queries and the dump of their results to
\* notion_cache.json; an exception of a query is caught and False returned
fetch_notion_data(answer) ==
    IF answer = "ok"
    THEN [ret |-> TRUE, cache |-> <<source>>]
    ELSE [ret |-> FALSE, cache |-> notion_cache]

\* a sync that clears the tables when the fetch fails
sync_data_from_notion_wipe(answer) ==
    [sync |-> answer, cache |-> fetch_notion_data(answer).cache,
     db |-> IF answer = "ok" THEN Tables
            ELSE [groups |-> <<>>, group_lists |-> {}, forward_lists |-> {}, admins |-> {}]]

\* sync_data_from_notion: the fetch (its result is dropped), then the reload of
\* allowed_groups from the database and of the welcome configuration from the
\* cache file; it returns nothing and writes no table of the database
sync_data_from_notion(answer) ==
    [sync |-> answer, cache |-> fetch_notion_data(answer).cache, db |-> Tables]

(***************************************************************************)
(* NCCManager._handle_forward_state, one operator per state of the session.*)
(* Each gives the set of outcomes of the call: one per answer of the       *)
(* environment (a download, a fetch, the iteration order of a set).        *)
(***************************************************************************)
\* "if msg.content == '0'": leave from any state
ExitOutcomes(msg, sender, S) ==
    {Result(_reset_operator_state(S, sender), <<>>, <<Reply(sender, "exited", 0)>>, TRUE)}

\* a root menu whose option 1 keeps the messages the session holds
MenuOutcomes_keep(msg, sender, S) ==
    LET st == StateOf(S, sender)
    IN  IF msg.content = <<"1">>
        THEN {Result(Update(S, st, [st EXCEPT !.state = WAITING_MESSAGE]),
                     <<>>, <<Reply(sender, "collect_prompt", 0)>>, TRUE)}
        ELSE {Result(S, <<>>, <<Reply(sender, "invalid_option", 0)>>, TRUE)}

\* state WAITING_CHOICE_MODE: the root menu
MenuOutcomes(msg, sender, S) ==
    LET st == StateOf(S, sender)
    IN  CASE msg.content = <<"5">> ->
               LET S1 == Update(S, st, [st EXCEPT !.state = WELCOME_GROUP_CHOICE])
                   wgroups == get_welcome_enabled_groups
               IN  IF wgroups = <<>>
                   THEN {Result(_reset_operator_state(S1, sender), <<>>,
                                <<Reply(sender, "welcome_none", 0)>>, TRUE)}
                   ELSE {Result(S1, <<>>,
                                <<Reply(sender, "welcome_groups", Len(wgroups))>>, TRUE)}
          [] msg.content = <<"2">> ->
               {LET synced == sync_data_from_notion(answer)
                IN  [Result(S, <<>>, <<Reply(sender, "sync_ok", 0), _send_menu(sender)>>, TRUE)
                        EXCEPT !.sync = synced.sync, !.cache = synced.cache,
                               !.db = synced.db, !.waits = <<"fetch_notion_data">>] :
                 answer \in {"ok", "error"}}
          [] msg.content = <<"1">> ->
               {Result(Update(S, st, [st EXCEPT !.state = WAITING_MESSAGE, !.messages = <<>>]),
                       <<>>, <<Reply(sender, "collect_prompt", 0)>>, TRUE)}
          [] msg.content = <<"3">> ->
               {Result(S, <<>>, <<Reply(sender, "notion_link", 0)>>, TRUE)}
          [] msg.content = <<"4">> ->
               {Result(S, <<>>, <<Reply(sender, "admin_list", Cardinality(admins))>>, TRUE)}
          [] OTHER ->
               {Result(S, <<>>, <<Reply(sender, "invalid_option", 0)>>, TRUE)}

\* a proceed step without the "if not operator_state.messages" test
ProceedOutcomes_unchecked(msg, sender, S) ==
    LET st == StateOf(S, sender)
        S1 == Update(S, st, [st EXCEPT !.state = WAITING_CHOICE])
    IN  IF ForwardListsQuery = {}
        THEN {Result(_reset_operator_state(S1, sender), <<>>,
                     <<Reply(sender, "no_lists", 0)>>, TRUE)}
        ELSE {Result(S1, <<>>, <<Reply(sender, "list_menu", Len(st.messages))>>, TRUE)}

\* state WAITING_MESSAGE, "if msg.content == '1'": go on to the choice of lists
ProceedOutcomes(msg, sender, S) ==
    LET st == StateOf(S, sender)
    IN  IF st.messages = <<>>
        THEN {Result(S, <<>>, <<Reply(sender, "no_messages", 0)>>, TRUE)}
        ELSE LET S1 == Update(S, st, [st EXCEPT !.state = WAITING_CHOICE])
             IN  IF ForwardListsQuery = {}
                 THEN {Result(_reset_operator_state(S1, sender), <<>>,
                              <<Reply(sender, "no_lists", 0)>>, TRUE)}
                 ELSE {Result(S1, <<>>,
                              <<Reply(sender, "list_menu", Len(st.messages))>>, TRUE)}

\* a collection that appends the image before it looks at the download
CollectOutcomes_eager(msg, sender, S) ==
    LET st == StateOf(S, sender)
        collected == Append(st.messages, msg)
        S1 == Update(S, st, [st EXCEPT !.messages = collected])
    IN  IF msg.type = TYPE_IMAGE
        THEN {Result(S1, <<>>, <<Reply(sender, "image_wait", 0),
                                 Reply(sender, "image_failed", 0)>>, TRUE),
              Result(S1, <<>>, <<Reply(sender, "image_wait", 0),
                                 Reply(sender, "collected", Len(collected))>>, TRUE)}
        ELSE {Result(S1, <<>>, <<Reply(sender, "collected", Len(collected))>>, TRUE)}

\* state WAITING_MESSAGE, any other message: collect it
CollectOutcomes(msg, sender, S) ==
    LET st == StateOf(S, sender)
        collected == Append(st.messages, msg)
        added == Result(Update(S, st, [st EXCEPT !.messages = collected]), <<>>,
                        <<Reply(sender, "collected", Len(collected))>>, TRUE)
        wait == Reply(sender, "image_wait", 0)
    IN  IF msg.type = TYPE_IMAGE
        THEN {[CASE download = "ok" -> [added EXCEPT !.out = <<wait>> \o @]
                 [] download = "no_file" ->
                      Result(S, <<>>, <<wait, Reply(sender, "image_failed", 0)>>, TRUE)
                 [] download = "timeout" ->
                      Result(S, <<>>, <<wait, Reply(sender, "image_timeout", 0)>>, TRUE)
                 [] OTHER ->
                      Result(S, <<>>, <<wait, Reply(sender, "collect_error", 0)>>, TRUE)
                  EXCEPT !.waits = <<"download_image">>] :
              download \in {"ok", "no_file", "timeout", "error"}}
        ELSE {added}

\* an empty resolution that ends the session
NoGroupsOutcome_reset(sender, S) ==
    Result(_reset_operator_state(S, sender), <<>>, <<Reply(sender, "no_groups", 0)>>, TRUE)

\* "if not groups": the reply that nothing can be forwarded to, and return True
NoGroupsOutcome(sender, S) == Result(S, <<>>, <<Reply(sender, "no_groups", 0)>>, TRUE)

\* state WAITING_CHOICE: resolve the selector and put the task on the queue
ChoiceOutcomes(msg, sender, S) ==
    LET st == StateOf(S, sender)
    IN  IF ~SelectorOk(msg.content)
        THEN {Result(S, <<>>, <<Reply(sender, "invalid_selector", 0)>>, TRUE)}
        ELSE IF st.messages = <<>>
        THEN {Result(S, <<>>, <<>>, TRUE)}
        ELSE LET targets == ResolveGroups(SelectorIds(msg.content))
             IN  IF targets = {}
                 THEN {NoGroupsOutcome(sender, S)}
                 ELSE {Result(_reset_operator_state(S, sender),
                              <<Task(st.messages, grouplist, sender)>>,
                              <<Reply(sender, "started", Cardinality(targets))>>, TRUE) :
                       grouplist \in Perms(targets)}

\* state WELCOME_GROUP_CHOICE: pick the group whose welcome messages are managed
WelcomeGroupOutcomes(msg, sender, S) ==
    LET st == StateOf(S, sender)
        wgroups == get_welcome_enabled_groups
        choice == IntOf(msg.content)
    IN  IF ~IntOk(msg.content)
        THEN {Result(S, <<>>, <<Reply(sender, "invalid_number", 0)>>, TRUE)}
        ELSE IF choice = 0
        THEN {Result(_reset_operator_state(S, sender), <<>>,
                     <<Reply(sender, "welcome_exited", 0)>>, TRUE)}
        ELSE IF 1 <= choice /\ choice <= Len(wgroups)
        THEN {Result(Update(S, st, [st EXCEPT !.current_group = wgroups[choice].wxid,
                                              !.state = WELCOME_MANAGE]),
                     <<>>, <<Reply(sender, "welcome_menu", 0)>>, TRUE)}
        ELSE {Result(S, <<>>, <<Reply(sender, "invalid_choice", 0)>>, TRUE)}

\* WelcomeService.show_current_messages
show_current_messages(group_id, operator) ==
    IF welcome_messages[group_id] = <<>>
    THEN <<Reply(operator, "welcome_unset", 0)>>
    ELSE <<Reply(operator, "welcome_current", Len(welcome_messages[group_id]))>>

\* state WELCOME_MANAGE: show or replace the welcome messages of the chosen group
WelcomeManageOutcomes(msg, sender, S) ==
    LET st == StateOf(S, sender)
        choice == IntOf(msg.content)
    IN  IF ~IntOk(msg.content)
        THEN {Result(S, <<>>, <<Reply(sender, "invalid_number", 0)>>, TRUE)}
        ELSE CASE choice = 0 ->
                    {Result(_reset_operator_state(S, sender), <<>>,
                            <<Reply(sender, "welcome_exited", 0)>>, TRUE)}
               [] choice = 1 ->
                    {Result(S, <<>>, show_current_messages(st.current_group, sender), TRUE)}
               [] choice = 2 ->
                    {Result(Update(S, st, [st EXCEPT !.state = WELCOME_COLLECTING,
                                                     !.messages = <<>>]),
                            <<>>, <<Reply(sender, "welcome_prompt", 0)>>, TRUE)}
               [] OTHER ->
                    {Result(S, <<>>, <<Reply(sender, "invalid_choice", 0)>>, TRUE)}

\* WelcomeService.save_messages: the collected messages of a storable type, in
\* order (keep[i]: the image of message i could be read), written by
\* set_welcome_messages unless the write fails; the confirmation is sent either way
SavedMessages(messages, keep) ==
    LET storable(i) == \/ messages[i].type = TYPE_TEXT
                       \/ messages[i].type = TYPE_IMAGE /\ keep[i]
        idx == {i \in 1..Len(messages) : storable(i)}
        RECURSIVE Build(_)
        Build(i) == IF i > Len(messages) THEN <<>>
                    ELSE (IF i \in idx THEN <<messages[i]>> ELSE <<>>) \o Build(i + 1)
    IN  Build(1)

save_messages(group_id, messages, keep, written) ==
    IF written
    THEN [welcome_messages EXCEPT ![group_id] = SavedMessages(messages, keep)]
    ELSE welcome_messages

\* state WELCOME_COLLECTING: collect the new welcome messages, "1" saves them
WelcomeCollectOutcomes(msg, sender, S) ==
    LET st == StateOf(S, sender)
        collected == Append(st.messages, msg)
    IN  IF msg.content = <<"1">>
        THEN IF st.messages = <<>>
             THEN {Result(S, <<>>, <<Reply(sender, "welcome_empty", 0)>>, TRUE)}
             ELSE {[Result(_reset_operator_state(S, sender), <<>>,
                           <<Reply(sender, "welcome_saved", 0)>>, TRUE)
                       EXCEPT !.welcome = save_messages(st.current_group, st.messages,
                                                        keep, written)] :
                   keep \in [1..Len(st.messages) -> BOOLEAN], written \in BOOLEAN}
        ELSE {Result(Update(S, st, [st EXCEPT !.messages = collected]), <<>>,
                     <<Reply(sender, "welcome_collected", Len(collected))>>, TRUE)}

_handle_forward_state(msg, sender, S) ==
    LET st == StateOf(S, sender)
    IN  IF msg.content = <<"0">> THEN ExitOutcomes(msg, sender, S)
        ELSE CASE st.state = WAITING_CHOICE_MODE -> MenuOutcomes(msg, sender, S)
               [] st.state = WAITING_MESSAGE ->
                    IF msg.content = <<"1">> THEN ProceedOutcomes(msg, sender, S)
                    ELSE CollectOutcomes(msg, sender, S)
               [] st.state = WAITING_CHOICE -> ChoiceOutcomes(msg, sender, S)
               [] st.state = WELCOME_GROUP_CHOICE -> WelcomeGroupOutcomes(msg, sender, S)
               [] st.state = WELCOME_MANAGE -> WelcomeManageOutcomes(msg, sender, S)
               [] st.state = WELCOME_COLLECTING -> WelcomeCollectOutcomes(msg, sender, S)
               [] OTHER -> {Result(S, <<>>, <<>>, FALSE)}

(***************************************************************************)
(* NCCManager.handle_message and the private-message branch of             *)
(* Robot.processMsg that calls it.                                         *)
(***************************************************************************)
\* the entry keyword without the test 'msg.sender in admin_wxids'
EntryOutcomes_open(msg, sender, S) ==
    LET S1 == _get_operator_state(S, sender)
        st == StateOf(S1, sender)
    IN  {Result(Update(S1, st, [st EXCEPT !.state = WAITING_CHOICE_MODE]), <<>>,
                <<_send_menu(sender)>>, TRUE)}

\* the entry keyword: 'msg.content.lower().strip() == "ncc"'
EntryOutcomes(msg, sender, S) ==
    IF sender \in get_admin_wxids
    THEN LET S1 == _get_operator_state(S, sender)
             st == StateOf(S1, sender)
         IN  {Result(Update(S1, st, [st EXCEPT !.state = WAITING_CHOICE_MODE]), <<>>,
                     <<_send_menu(sender)>>, TRUE)}
    ELSE {Result(S, <<>>, <<Reply(sender, "denied", 0)>>, FALSE)}

handle_message(msg, sender, S) ==
    IF Strip(Lower(msg.content)) = NCC
    THEN EntryOutcomes(msg, sender, S)
    ELSE IF HasState(S, sender) /\ StateOf(S, sender).state # IDLE
    THEN _handle_forward_state(msg, sender, S)
    ELSE {Result(S, <<>>, <<>>, FALSE)}

\* processMsg, private messages: "if content.lower() == 'ncc' or (the sender has a
\* session) or sender == ...: if handle_message(msg): return"; a message that is
\* not consumed goes on to the music, invite and chat handlers
RoutedToNcc(msg, sender, S) ==
    \/ Lower(msg.content) = NCC
    \/ HasState(S, sender) /\ StateOf(S, sender).state # IDLE
    \/ sender = SPECIAL_SENDER

OtherHandlers(sender) == <<Reply(sender, "other_handler", 0)>>

PrivateOutcomes(msg, sender, S) ==
    IF RoutedToNcc(msg, sender, S)
    THEN {IF r.ret THEN r ELSE [r EXCEPT !.out = @ \o OtherHandlers(sender)] :
          r \in handle_message(msg, sender, S)}
    ELSE {Result(S, <<>>, OtherHandlers(sender), FALSE)}

(***************************************************************************)
(* The worker thread: NCCManager._process_forward_queue.                   *)
(***************************************************************************)
\* one Delivery Adapter invocation, as the log keeps it
Call(job, group, m, attempt, api, ok) ==
    [job |-> job, group |-> group, msg |-> m, attempt |-> attempt, api |-> api, ok |-> ok]

\* the loop test without "and not success"
Settled_NoStop(success, r) == r >= MAX_RETRIES

\* the loop test without "retries < MAX_RETRIES"
Settled_unbounded(success, r) == success

\* "while retries < MAX_RETRIES and not success": the loop is left
Settled(success, r) == success \/ r >= MAX_RETRIES

\* _forward_message(msg, receiver): the outcomes of one call, each with the
\* adapter invocations it made (api, succeeded) and what the caller sees:
\* "true", "false" or "raise"
_forward_message(msg) ==
    LET forward == {[apis |-> <<<<"forward_msg", TRUE>>>>, ret |-> "true"],
                    [apis |-> <<<<"forward_msg", FALSE>>>>, ret |-> "false"],
                    [apis |-> <<<<"forward_msg", FALSE>>>>, ret |-> "raise"]}
    IN  IF msg.type = TYPE_IMAGE
        THEN \* the file is there and send_image returns 0
             {[apis |-> <<<<"send_image", TRUE>>>>, ret |-> "true"]}
             \* the file is there and send_image raises
             \cup {[apis |-> <<<<"send_image", FALSE>>>>, ret |-> "false"]}
             \* the file is there and send_image fails: forward_msg is tried
             \cup {[f EXCEPT !.apis = <<<<"send_image", FALSE>>>> \o @] : f \in forward}
             \* the file is not there
             \cup forward
        ELSE forward

FailedCalls(apis) == Cardinality({i \in 1..Len(apis) : ~apis[i][2]})

\* the record of a pair that used up its retries
FailedMessage(m, msg) == [msg_id |-> m, type |-> msg.type]

\* wcf.get_room_name(wxid), the name the contact database holds ("" when none)
get_room_name(wxid) == IF wxid = "g1" THEN "room one" ELSE ""

\* "self.wcf.get_room_name(group) or group"
GroupLabel(wxid) == IF get_room_name(wxid) # "" THEN get_room_name(wxid) ELSE wxid

\* a status whose success figure is the number of messages of the task
Status_perGroup(job, operator_id, succ, failed, total_messages, total_groups, fails) ==
    [job |-> job, to |-> operator_id, kind |-> "summary", success |-> total_messages,
     failed |-> failed, total_messages |-> total_messages, total_groups |-> total_groups,
     details |-> [i \in 1..Len(fails) |->
                    [group |-> get_room_name(fails[i].group), messages |-> fails[i].messages]]]

\* the final status text: the counters, the totals and the failure details
Status(job, operator_id, succ, failed, total_messages, total_groups, fails) ==
    [job |-> job, to |-> operator_id, kind |-> "summary", success |-> succ, failed |-> failed,
     total_messages |-> total_messages, total_groups |-> total_groups,
     details |-> [i \in 1..Len(fails) |->
                    [group |-> GroupLabel(fails[i].group), messages |-> fails[i].messages]]]

\* a get that takes the item put last
get_lifo(queue) ==
    [item |-> queue[Len(queue)], rest |-> SubSeq(queue, 1, Len(queue) - 1)]

\* queue.Queue.get(): the item put first, and the queue it leaves
get(queue) == [item |-> Head(queue), rest |-> Tail(queue)]

\* task = self.forward_queue.get(), and the initialisation of the counters
Dequeue ==
    /\ wpc = "get"
    /\ forward_queue # <<>>
    /\ task' = get(forward_queue).item
    /\ forward_queue' = get(forward_queue).rest
    /\ dequeued' = dequeued + 1
    /\ success_count' = 0
    /\ failed_count' = 0
    /\ failed_messages' = <<>>
    /\ group_failed_messages' = <<>>
    /\ gi' = 1
    /\ mi' = 1
    /\ retries' = 0
    /\ wpc' = IF get(forward_queue).item.groups = <<>>
                    \/ get(forward_queue).item.messages = <<>>
              THEN "report" ELSE "send"
    /\ UNCHANGED <<dbvars, dirvars, intakevars, out, resolvevars, calls, reports, faults, budget,
                   lockvars>>

\* loops that are left as soon as a pair has used up its retries
LoopsDone_abort(settled, success, lastmsg, lastgroup) ==
    settled /\ (~success \/ (lastmsg /\ lastgroup))

\* "for i, group in enumerate(groups)" and "for msg in messages" are both left:
\* the pair just settled was the last message of the last group
LoopsDone(settled, success, lastmsg, lastgroup) == settled /\ lastmsg /\ lastgroup

\* a pass that sleeps after every failed attempt
backoff_always(success, r) == ~success

\* "if retries < MAX_RETRIES: time.sleep(2)" of a pass, r the count after the pass
backoff(success, r) == ~success /\ r < MAX_RETRIES

\* an extra pause before every group but the first
extra_delay_each(i) == i > 0

\* "if i > 0 and i % 10 == 0: time.sleep(extra_delay)", i the 0-based position of
\* the group the loop turns to
extra_delay(i) == i > 0 /\ i % 10 = 0

\* one call of time.sleep: its kind, the group (1-based) and message it belongs
\* to, and the number of adapter invocations made before it
Sleep(kind, g, m, at) == [kind |-> kind, group |-> g, msg |-> m, at |-> at]

\* the sleeps from the end of a pass for the pair (g, m) to the next pass: the
\* backoff inside the retry loop, or the pause after the message, the pause after
\* the group when the message was its last, and the extra pause of the next group
Sleeps(success, r, settled, lastmsg, lastgroup, g, m, at) ==
    (IF backoff(success, r) THEN <<Sleep("backoff", g, m, at)>> ELSE <<>>)
    \o (IF settled THEN <<Sleep("message", g, m, at)>> ELSE <<>>)
    \o (IF settled /\ lastmsg THEN <<Sleep("group", g, 0, at)>> ELSE <<>>)
    \o (IF settled /\ lastmsg /\ ~lastgroup /\ extra_delay(g)
        THEN <<Sleep("extra", g + 1, 0, at)>> ELSE <<>>)

\* one pass of "while retries < MAX_RETRIES and not success" for the pair (gi, mi),
\* and, when the pair is settled, the rest of both loop bodies. With fine, the pass
\* ends where the worker sleeps next and with the image lock released; without,
\* the lock is taken and released within the step and the sleeps are not told apart
Pass(fine) ==
    /\ wpc = "send"
    /\ \E f \in _forward_message(task.messages[mi]) :
         LET group == task.groups[gi]
             msg == task.messages[mi]
             success == f.ret = "true"
             r == IF success THEN retries ELSE retries + 1
             settled == Settled(success, r)
             gfm == IF ~success /\ settled
                    THEN Append(group_failed_messages, FailedMessage(mi, msg))
                    ELSE group_failed_messages
             lastmsg == mi = Len(task.messages)
         IN  /\ faults + FailedCalls(f.apis) <= budget
             /\ faults' = faults + FailedCalls(f.apis)
             /\ calls' = calls \o [i \in 1..Len(f.apis) |->
                                     Call(dequeued, group, mi, retries + 1, f.apis[i][1], f.apis[i][2])]
             /\ success_count' = IF success THEN success_count + 1 ELSE success_count
             /\ failed_count' = IF ~success /\ settled THEN failed_count + 1 ELSE failed_count
             /\ retries' = IF settled THEN 0 ELSE r
             /\ mi' = IF ~settled THEN mi ELSE IF lastmsg THEN 1 ELSE mi + 1
             /\ gi' = IF settled /\ lastmsg THEN gi + 1 ELSE gi
             /\ group_failed_messages' = IF settled /\ lastmsg THEN <<>> ELSE gfm
             /\ failed_messages' =
                    IF settled /\ lastmsg /\ gfm # <<>>
                    THEN Append(failed_messages, [group |-> group, messages |-> gfm])
                    ELSE failed_messages
             /\ wpc' = IF LoopsDone(settled, success, lastmsg, gi = Len(task.groups))
                       THEN "report" ELSE "send"
             /\ image_lock' = IF fine THEN "free" ELSE image_lock
             /\ wphase' = IF ~fine THEN wphase
                          ELSE IF backoff(success, r) THEN "backoff" ELSE "pacing"
             /\ attempt_ret' = IF fine THEN f.ret ELSE attempt_ret
             /\ sleeps' = IF ~fine THEN sleeps
                          ELSE sleeps \o Sleeps(success, r, settled, lastmsg,
                                                gi = Len(task.groups), gi, mi, Len(calls'))
    /\ UNCHANGED <<dbvars, dirvars, intakevars, forward_queue, out, resolvevars,
                   task, reports, dequeued, budget>>

Attempt ==
    /\ wpc = "send"
    /\ Pass(FALSE)

\* a worker that ends the session of the operator it reports to
WorkerSessions_reset(S, operator_id) == _reset_operator_state(S, operator_id)

\* the session store as the worker leaves it when it reports to operator_id:
\* _process_forward_queue has no statement on operator_states
WorkerSessions(S, operator_id) == S

\* the status is built and sent to the operator, then task_done()
Report ==
    /\ wpc = "report"
    /\ reports' = Append(reports,
                         Status(dequeued, task.operator_id, success_count, failed_count,
                                Len(task.messages), Len(task.groups), failed_messages))
    /\ wpc' = "get"
    /\ operator_states' = WorkerSessions(operator_states, task.operator_id)
    /\ UNCHANGED <<dbvars, dirvars, intake_pc, caught, inbound, last_msg, enqueued, submitted,
                   welcome_messages, forward_queue, out, resolvevars, task, gi, mi,
                   retries, success_count, failed_count, failed_messages,
                   group_failed_messages, calls, dequeued, faults, budget, lockvars>>

\* building or sending the status raises: the handler of the loop sends the error
\* notice instead, then task_done()
ReportRaises ==
    /\ wpc = "report"
    /\ faults < budget
    /\ faults' = faults + 1
    /\ reports' = Append(reports, [job |-> dequeued, to |-> task.operator_id, kind |-> "error"])
    /\ wpc' = "get"
    /\ UNCHANGED <<dbvars, dirvars, intakevars, forward_queue, out, resolvevars, task, gi, mi,
                   retries, success_count, failed_count, failed_messages,
                   group_failed_messages, calls, dequeued, budget, lockvars>>

\* the error notice raises too: the exception leaves the thread's function
ReportRaisesTwice ==
    /\ wpc = "report"
    /\ faults + 2 <= budget
    /\ faults' = faults + 2
    /\ wpc' = "dead"
    /\ UNCHANGED <<dbvars, dirvars, intakevars, forward_queue, out, resolvevars, task, gi, mi,
                   retries, success_count, failed_count, failed_messages,
                   group_failed_messages, calls, reports, dequeued, budget, lockvars>>

(***************************************************************************)
(* The intake thread: one private message handled by Robot.processMsg.     *)
(***************************************************************************)
InboundMsgs ==
    {Msg(TYPE_TEXT, c) : c \in {NCC, <<"0">>, <<"1">>, <<"2">>, <<"5">>,
                                <<"2", "+", "3">>, <<"h", "i">>}}
    \cup {Msg(TYPE_IMAGE, <<"i", "m", "g">>)}

WithinBounds(r) ==
    /\ enqueued + Len(r.put) <= MaxJobs
    /\ \A s \in r.S : Len(s.messages) <= MaxCollected

\* a put that throws away the tasks still waiting
put_replace(queue, items) == IF items = <<>> THEN queue ELSE items

\* forward_queue.put, for the tasks one handled message puts (none or one)
put(queue, items) == queue \o items

\* processMsg for one private message: a message of msgs from a sender of senders
Intake(senders, msgs) ==
    /\ intake_pc = "loop"
    /\ \E sender \in senders, msg \in msgs :
         \E r \in PrivateOutcomes(msg, sender, operator_states) :
            /\ WithinBounds(r)
            /\ operator_states' = r.S
            /\ forward_queue' = put(forward_queue, r.put)
            /\ enqueued' = enqueued + Len(r.put)
            /\ submitted' = submitted \o r.put
            /\ out' = r.out
            /\ notion_cache' = r.cache
            /\ groups' = r.db.groups
            /\ group_lists' = r.db.group_lists
            /\ forward_lists' = r.db.forward_lists
            /\ admins' = r.db.admins
            /\ welcome_messages' = r.welcome
            /\ last_msg' = [sender |-> sender, msg |-> msg, ret |-> r.ret, sync |-> r.sync,
                             state |-> SessionState(operator_states, sender),
                             raised |-> FALSE, waits |-> r.waits, during |-> wphase]
    /\ inbound' = inbound + 1
    /\ UNCHANGED <<source, workervars, resolvevars, intake_pc, caught>>

processMsg ==
    /\ inbound < MaxInbound
    /\ Intake(Senders, InboundMsgs)

\* processMsg, a message the robot's own account sent: the text "*更新" (here
\* "*") reloads the configuration and runs sync_data_from_notion; nothing else
\* is done for an own message
SELF == "self"

processSelfMsg ==
    /\ inbound < MaxInbound
    /\ intake_pc = "loop"
    /\ \E answer \in {"ok", "error"} :
         LET synced == sync_data_from_notion(answer)
         IN  /\ notion_cache' = synced.cache
             /\ groups' = synced.db.groups
             /\ group_lists' = synced.db.group_lists
             /\ forward_lists' = synced.db.forward_lists
             /\ admins' = synced.db.admins
             /\ last_msg' = [sender |-> SELF, msg |-> Msg(TYPE_TEXT, <<"*">>), ret |-> FALSE,
                             sync |-> synced.sync, state |-> IDLE, raised |-> FALSE,
                             waits |-> <<"fetch_notion_data">>, during |-> wphase]
    /\ inbound' = inbound + 1
    /\ out' = <<>>
    /\ UNCHANGED <<source, workervars, resolvevars, operator_states, forward_queue,
                   enqueued, submitted, welcome_messages, intake_pc, caught>>

(***************************************************************************)
(* The specification of the program.                                       *)
(***************************************************************************)
\* the datasets the directory cache and the directory source may hold
Dataset(gs, gl, fl, ad) ==
    [groups |-> gs, group_lists |-> gl, forward_lists |-> fl, admins |-> ad]

DatasetA ==
    Dataset(<<GroupRow("g1", "one", TRUE, TRUE, TRUE, None),
              GroupRow("g2", "two", FALSE, TRUE, FALSE, None),
              GroupRow("g3", "three", TRUE, FALSE, TRUE, None)>>,
            {<<"g1", 2>>, <<"g2", 3>>, <<"g3", 2>>},
            {2, 3},
            {"wxid_a1", SPECIAL_SENDER})

DatasetB ==
    Dataset(<<GroupRow("g1", "one", FALSE, TRUE, TRUE, None)>>,
            {},
            {},
            {"wxid_a1"})

Datasets == {DatasetA, DatasetB}

\* no selector has been resolved (SpecResolve)
NotResolved == [reply |-> None, groups |-> {}, put |-> 0, state |-> None]

\* no message has been handled yet
NoMsg == [sender |-> None, msg |-> Msg(TYPE_TEXT, <<>>), ret |-> FALSE,
          sync |-> "none", state |-> IDLE, raised |-> FALSE, waits |-> <<>>,
          during |-> None]

InitWorker ==
    /\ wpc = "get"
    /\ task = Task(<<>>, <<>>, None)
    /\ gi = 1
    /\ mi = 1
    /\ retries = 0
    /\ success_count = 0
    /\ failed_count = 0
    /\ failed_messages = <<>>
    /\ group_failed_messages = <<>>
    /\ calls = <<>>
    /\ reports = <<>>
    /\ dequeued = 0
    /\ faults = 0
    /\ image_lock = "free"
    /\ wphase = "run"
    /\ attempt_ret = "none"
    /\ sleeps = <<>>

InitIntake ==
    /\ operator_states = {}
    /\ forward_queue = <<>>
    /\ inbound = 0
    /\ intake_pc = "loop"
    /\ caught = 0
    /\ last_msg = NoMsg
    /\ out = <<>>
    /\ enqueued = 0
    /\ submitted = <<>>
    /\ welcome_messages = [g \in GroupIds |-> <<>>]

Init ==
    /\ \E d \in Datasets :
         /\ groups = d.groups
         /\ group_lists = d.group_lists
         /\ forward_lists = d.forward_lists
         /\ admins = d.admins
    /\ source \in Datasets
    /\ notion_cache \in {<<>>, <<source>>}
    /\ InitIntake
    /\ InitWorker
    /\ budget = MaxFaults
    /\ selector = <<>>
    /\ resolved = NotResolved

Next ==
    \/ processMsg
    \/ processSelfMsg
    \/ Dequeue
    \/ Attempt
    \/ Report
    \/ ReportRaises
    \/ ReportRaisesTwice

Spec == Init /\ [][Next]_vars

(***************************************************************************)
(* SpecResolve: the resolution of a selector in state WAITING_CHOICE, for  *)
(* every directory cache over three groups and three lists.                *)
(***************************************************************************)
Selectors ==
    {<<"1">>, <<"2">>, <<"3">>, <<"2", "+", "3">>, <<"3", "+", "2">>, <<"1", "+", "2">>,
     <<"2", "+", "2">>, <<" ", "2", "+", " ", "3">>, <<"2", "+">>, <<"a">>}

\* a session that has collected one message and was shown the lists
SelectingState ==
    [id |-> "wxid_a1", state |-> WAITING_CHOICE, list_id |-> None,
     messages |-> <<Msg(TYPE_TEXT, <<"h", "i">>)>>, current_group |-> None]

InitResolve ==
    /\ \E fwd \in [GroupIds -> BOOLEAN] :
         groups = <<GroupRow("g1", "one", TRUE, fwd["g1"], TRUE, None),
                    GroupRow("g2", "two", FALSE, fwd["g2"], FALSE, None),
                    GroupRow("g3", "three", TRUE, fwd["g3"], TRUE, None)>>
    /\ group_lists \in SUBSET (GroupIds \X ListIds)
    /\ forward_lists = {2, 3}
    /\ admins = {"wxid_a1"}
    /\ source = DatasetA
    /\ notion_cache = <<>>
    /\ InitIntake
    /\ InitWorker
    /\ budget = 0
    /\ selector = <<>>
    /\ resolved = NotResolved

\* the operator's selector is handled in WAITING_CHOICE; what came of it is kept
Resolve ==
    /\ selector = <<>>
    /\ \E c \in Selectors :
         \E r \in ChoiceOutcomes(Msg(TYPE_TEXT, c), "wxid_a1", {SelectingState}) :
            /\ selector' = c
            /\ resolved' = [reply |-> r.out[1].kind,
                            groups |-> IF r.put = <<>> THEN {} ELSE SeqRange(r.put[1].groups),
                            put |-> IF r.put = <<>> THEN 0 ELSE Len(r.put[1].groups),
                            state |-> IF HasState(r.S, "wxid_a1")
                                      THEN StateOf(r.S, "wxid_a1").state ELSE IDLE]
    /\ UNCHANGED <<dbvars, dirvars, workervars, intakevars, forward_queue, out>>

NextResolve == Resolve

SpecResolve == InitResolve /\ [][NextResolve]_vars

(***************************************************************************)
(* SpecDispatch: the worker alone, started with one or two tasks on the    *)
(* queue, against a Delivery Adapter that may fail on any call.            *)
(***************************************************************************)
DatasetC ==
    Dataset(<<GroupRow("g1", "one", TRUE, TRUE, TRUE, None),
              GroupRow("g2", "two", FALSE, TRUE, FALSE, None),
              GroupRow("g3", "three", TRUE, TRUE, TRUE, None)>>,
            {<<"g1", 2>>, <<"g2", 3>>, <<"g3", 2>>},
            {2, 3},
            {"wxid_a1", SPECIAL_SENDER})

TextMsg == Msg(TYPE_TEXT, <<"h", "i">>)
ImageMsg == Msg(TYPE_IMAGE, <<"i", "m", "g">>)

\* the collected sequences drawn: up to n messages, at most one of them an image
MessageSeqs(n) ==
    UNION {{[i \in 1..k |-> IF i = img THEN ImageMsg ELSE TextMsg] : img \in 0..k} :
           k \in 1..n}

\* the resolved groups drawn: one list(groups) of each size
GroupOrder == <<"g2", "g1", "g3">>
GroupLists(n) == {SubSeq(GroupOrder, 1, k) : k \in 1..(IF n < Len(GroupOrder) THEN n ELSE Len(GroupOrder))}

\* the tasks a session can put on the queue: its collected messages and the
\* resolved groups in some order
TasksUpTo(ng, nm) ==
    {Task(ms, gl, "wxid_a1") : ms \in MessageSeqs(nm), gl \in GroupLists(ng)}

InitDispatch ==
    /\ groups = DatasetC.groups
    /\ group_lists = DatasetC.group_lists
    /\ forward_lists = DatasetC.forward_lists
    /\ admins = DatasetC.admins
    /\ source = DatasetC
    /\ notion_cache = <<DatasetC>>
    /\ operator_states = {}
    /\ \E first \in TasksUpTo(MaxJobGroups, MaxJobMessages) :
         forward_queue \in {<<first>>,
                            <<first, Task(<<TextMsg>>, <<"g1">>, SPECIAL_SENDER)>>}
    /\ inbound = 0
    /\ intake_pc = "loop"
    /\ caught = 0
    /\ last_msg = NoMsg
    /\ out = <<>>
    /\ enqueued = Len(forward_queue)
    /\ submitted = forward_queue
    /\ welcome_messages = [g \in GroupIds |-> <<>>]
    /\ InitWorker
    /\ budget = MaxDispatchFaults
    /\ selector = <<>>
    /\ resolved = NotResolved

NextDispatch ==
    \/ Dequeue
    \/ Attempt
    \/ Report
    \/ ReportRaises
    \/ ReportRaisesTwice

SpecDispatch == InitDispatch /\ [][NextDispatch]_vars

(***************************************************************************)
(* SpecInput: the intake thread and the worker, started in a state an      *)
(* admin's earlier messages have left: a session in any state of the       *)
(* machine and, possibly, a task already on the queue.                     *)
(***************************************************************************)
DatasetD ==
    Dataset(<<GroupRow("g1", "one", TRUE, TRUE, TRUE, None),
              GroupRow("g2", "two", TRUE, FALSE, FALSE, None),
              GroupRow("g3", "three", FALSE, TRUE, TRUE, None)>>,
            {<<"g1", 2>>, <<"g2", 3>>},
            {2, 3},
            {"wxid_a1", SPECIAL_SENDER})

InputMsgs ==
    InboundMsgs \cup {Msg(TYPE_TEXT, c) : c \in {<<"3">>, <<"1", "+">>, <<"1", "+", "a">>}}

\* the sessions the handlers leave in the store for operator_id, given the
\* welcome-enabled groups wgroups of the cache
SessionsLeft(operator_id, wgroups) ==
    LET at(st, ms, cg) == [OperatorState(operator_id) EXCEPT
                              !.state = st, !.messages = ms, !.current_group = cg]
        some == MessageSeqs(MaxCollected)
    IN  {at(WAITING_CHOICE_MODE, ms, None) : ms \in {<<>>, <<TextMsg>>}}
        \cup {at(WAITING_MESSAGE, ms, None) : ms \in some \cup {<<>>}}
        \cup {at(WAITING_CHOICE, ms, None) : ms \in some}
        \cup {at(WELCOME_GROUP_CHOICE, <<>>, None)}
        \cup {at(WELCOME_MANAGE, <<>>, g) : g \in wgroups}
        \cup {at(WELCOME_COLLECTING, ms, g) : ms \in {<<>>, <<TextMsg>>}, g \in wgroups}

\* a task the admin put on the queue before
QueuedTask == Task(<<TextMsg, ImageMsg>>, <<"g3">>, "wxid_a1")

InitInput ==
    /\ \E d \in {DatasetA, DatasetD} :
         /\ groups = d.groups
         /\ group_lists = d.group_lists
         /\ forward_lists = d.forward_lists
         /\ admins = d.admins
         /\ source = d
         /\ notion_cache = <<d>>
         /\ \E st \in SessionsLeft("wxid_a1", GroupWxids(SelectSeq(d.groups,
                                                   LAMBDA r : r.welcome_enabled))) :
              operator_states = {st}
    /\ forward_queue \in {<<>>, <<QueuedTask>>}
    /\ submitted = forward_queue
    /\ enqueued = Len(forward_queue)
    /\ inbound = 0
    /\ intake_pc = "loop"
    /\ caught = 0
    /\ last_msg = NoMsg
    /\ out = <<>>
    /\ welcome_messages = [g \in GroupIds |-> <<>>]
    /\ InitWorker
    /\ budget = 0
    /\ selector = <<>>
    /\ resolved = NotResolved

processInput ==
    /\ inbound < MaxInputs
    /\ Intake({"wxid_a1"}, InputMsgs)

\* NotionManager.create_new_group(wxid, group_name): what it leaves in the
\* directory source and in the cache file, one outcome per answer of Notion
create_new_group(wxid, group_name) ==
    LET rename(d) == [d EXCEPT !.groups =
                        [i \in 1..Len(d.groups) |->
                           IF d.groups[i].wxid = wxid
                           THEN [d.groups[i] EXCEPT !.name = group_name]
                           ELSE d.groups[i]]]
        create(d) == [d EXCEPT !.groups =
                        Append(@, GroupRow(wxid, group_name, FALSE, TRUE, FALSE, None))]
        loaded == IF notion_cache = <<>>
                  THEN {fetch_notion_data(a).cache : a \in {"ok", "error"}}
                  ELSE {notion_cache}
    IN  UNION {IF c = <<>>
               THEN {[source |-> source, cache |-> c]}
               ELSE IF wxid \in GroupWxids(c[1].groups)
               THEN {[source |-> rename(source), cache |-> c],
                     [source |-> source, cache |-> c]}
               ELSE {[source |-> create(source), cache |-> <<create(source)>>],
                     [source |-> create(source), cache |-> c],
                     [source |-> source, cache |-> c]} :
               c \in loaded}

\* DatabaseManager.update_groups for one group without 'list_ids': INSERT OR
\* REPLACE of its row, the memberships left alone
update_groups(row) ==
    Append(SelectSeq(groups, LAMBDA r : r.wxid # row.wxid), row)

\* the groups whose rename is drawn, and the name they are given
RenamedGroups == {"g3"}
NEW_NAME == "renamed"

\* processMsg, the system message of a group "修改群名为": the row of the group is
\* written with every flag set, then the group is renamed or created in Notion
processRenameMsg ==
    /\ inbound < MaxInputs
    /\ intake_pc = "loop"
    /\ \E g \in RenamedGroups :
         /\ groups' = update_groups(GroupRow(g, NEW_NAME, TRUE, TRUE, TRUE, None))
         /\ \E n \in create_new_group(g, NEW_NAME) :
              /\ source' = n.source
              /\ notion_cache' = n.cache
         /\ last_msg' = [sender |-> g, msg |-> Msg(10000, <<>>), ret |-> FALSE,
                         sync |-> "none", state |-> IDLE, raised |-> FALSE,
                         waits |-> <<"create_new_group">>, during |-> wphase]
    /\ inbound' = inbound + 1
    /\ out' = <<>>
    /\ UNCHANGED <<group_lists, forward_lists, admins, workervars, resolvevars,
                   operator_states, forward_queue, enqueued, submitted, welcome_messages,
                   intake_pc, caught>>

NextInput ==
    \/ processInput
    \/ processRenameMsg
    \/ Dequeue
    \/ Attempt
    \/ Report

SpecInput == InitInput /\ [][NextInput]_vars

(***************************************************************************)
(* SpecFaulty: the intake thread of SpecInput when a call made while a     *)
(* message is handled may raise: a reply (wcf.send_text), a query of the   *)
(* database, the sync, a call of the welcome service, or one of the        *)
(* handlers Robot.processMsg goes on to. What the handler did before the   *)
(* call stays done; the exception ends in the "except Exception" of        *)
(* Robot.processMsg.                                                       *)
(***************************************************************************)
\* a handler that was left by an exception: the session store and the replies it
\* had got to; nothing was put (the put of line 247 is followed by no call)
Partial(S, replies) == Result(S, <<>>, replies, FALSE)

\* handle_message, the entry keyword: get_admin_wxids or the reply raises
EntryRaises(msg, sender, S) ==
    {Partial(S, <<>>)}
    \cup {Partial(r.S, <<>>) : r \in EntryOutcomes(msg, sender, S)}

\* state WAITING_CHOICE_MODE
MenuRaises(msg, sender, S) ==
    LET st == StateOf(S, sender)
    IN  CASE msg.content = <<"5">> ->
               {Partial(Update(S, st, [st EXCEPT !.state = WELCOME_GROUP_CHOICE]), <<>>)}
          [] msg.content = <<"2">> ->
               {LET synced == sync_data_from_notion(answer)
                IN  [Partial(S, sent) EXCEPT !.sync = synced.sync, !.cache = synced.cache,
                                              !.db = synced.db,
                                              !.waits = <<"fetch_notion_data">>] :
                 answer \in {"ok", "error"},
                 sent \in {<<>>, <<Reply(sender, "sync_ok", 0)>>}}
          [] msg.content = <<"1">> ->
               {Partial(Update(S, st, [st EXCEPT !.state = WAITING_MESSAGE,
                                                 !.messages = <<>>]), <<>>)}
          [] OTHER -> {Partial(S, <<>>)}

\* state WAITING_MESSAGE, "1": the query of forward_lists or the reply raises
ProceedRaises(msg, sender, S) ==
    LET st == StateOf(S, sender)
    IN  IF st.messages = <<>>
        THEN {Partial(S, <<>>)}
        ELSE {Partial(Update(S, st, [st EXCEPT !.state = WAITING_CHOICE]), <<>>)}

\* state WAITING_MESSAGE, a message to collect: an exception inside the try is
\* answered by "消息收集异常" (line 204), and that reply raises
CollectRaises(msg, sender, S) ==
    LET st == StateOf(S, sender)
        appended == Update(S, st, [st EXCEPT !.messages = Append(st.messages, msg)])
        wait == Reply(sender, "image_wait", 0)
    IN  IF msg.type = TYPE_IMAGE
        THEN {Partial(S, <<>>),
              [Partial(S, <<wait>>) EXCEPT !.waits = <<"download_image">>],
              [Partial(appended, <<wait>>) EXCEPT !.waits = <<"download_image">>]}
        ELSE {Partial(appended, <<>>)}

\* state WAITING_CHOICE: a reply or the query raises; with no collected message
\* nothing is called
ChoiceRaises(msg, sender, S) ==
    IF SelectorOk(msg.content) /\ StateOf(S, sender).messages = <<>>
    THEN {}
    ELSE {Partial(S, <<>>)}

\* state WELCOME_GROUP_CHOICE
WelcomeGroupRaises(msg, sender, S) ==
    {Partial(S, <<>>)}
    \cup {Partial(r.S, <<>>) : r \in WelcomeGroupOutcomes(msg, sender, S)}

\* state WELCOME_MANAGE; show_current_messages sends the stored messages, then
\* asks wcf.query_sql for the creator's name and sends the footer
WelcomeManageRaises(msg, sender, S) ==
    LET st == StateOf(S, sender)
        stored == welcome_messages[st.current_group]
    IN  {Partial(S, <<>>)}
        \cup {Partial(r.S, <<>>) : r \in WelcomeManageOutcomes(msg, sender, S)}
        \cup (IF IntOk(msg.content) /\ IntOf(msg.content) = 1 /\ stored # <<>>
              THEN {Partial(S, <<Reply(sender, "welcome_messages", Len(stored))>>)}
              ELSE {})

\* state WELCOME_COLLECTING: save_messages raises before it writes, or its
\* confirmation raises after the write; either way line 310 is not reached
WelcomeCollectRaises(msg, sender, S) ==
    LET st == StateOf(S, sender)
    IN  IF msg.content = <<"1">>
        THEN {Partial(S, <<>>)}
             \cup (IF st.messages = <<>> THEN {}
                   ELSE {[Partial(S, <<>>) EXCEPT
                             !.welcome = save_messages(st.current_group, st.messages,
                                                       keep, written)] :
                         keep \in [1..Len(st.messages) -> BOOLEAN], written \in BOOLEAN})
        ELSE {Partial(Update(S, st, [st EXCEPT !.messages = Append(st.messages, msg)]),
                      <<>>)}

_handle_forward_state_raises(msg, sender, S) ==
    LET st == StateOf(S, sender)
    IN  IF msg.content = <<"0">>
        THEN {Partial(_reset_operator_state(S, sender), <<>>)}
        ELSE CASE st.state = WAITING_CHOICE_MODE -> MenuRaises(msg, sender, S)
               [] st.state = WAITING_MESSAGE ->
                    IF msg.content = <<"1">> THEN ProceedRaises(msg, sender, S)
                    ELSE CollectRaises(msg, sender, S)
               [] st.state = WAITING_CHOICE -> ChoiceRaises(msg, sender, S)
               [] st.state = WELCOME_GROUP_CHOICE -> WelcomeGroupRaises(msg, sender, S)
               [] st.state = WELCOME_MANAGE -> WelcomeManageRaises(msg, sender, S)
               [] st.state = WELCOME_COLLECTING -> WelcomeCollectRaises(msg, sender, S)
               [] OTHER -> {}

handle_message_raises(msg, sender, S) ==
    IF Strip(Lower(msg.content)) = NCC
    THEN EntryRaises(msg, sender, S)
    ELSE IF HasState(S, sender) /\ StateOf(S, sender).state # IDLE
    THEN _handle_forward_state_raises(msg, sender, S)
    ELSE {}

\* processMsg, private messages: handle_message raises, or it returns False and
\* one of the handlers after it raises before it has replied
PrivateRaises(msg, sender, S) ==
    IF RoutedToNcc(msg, sender, S)
    THEN handle_message_raises(msg, sender, S)
         \cup {[r EXCEPT !.ret = FALSE] : r \in {h \in handle_message(msg, sender, S) : ~h.ret}}
    ELSE {Partial(S, <<>>)}

\* a processMsg without the try: the exception leaves the thread's function
processMsg_noexcept(exc) == "dead"

\* "except Exception as e: self.LOG.error(...)": processMsg returns and the loop
\* of innerProcessMsg goes on to the next message
processMsg_except(exc) == "loop"

\* processMsg for one private message, ended by an exception
IntakeRaises(senders, msgs) ==
    /\ intake_pc = "loop"
    /\ \E sender \in senders, msg \in msgs :
         \E r \in PrivateRaises(msg, sender, operator_states) :
            /\ WithinBounds(r)
            /\ operator_states' = r.S
            /\ forward_queue' = put(forward_queue, r.put)
            /\ enqueued' = enqueued + Len(r.put)
            /\ submitted' = submitted \o r.put
            /\ out' = r.out
            /\ notion_cache' = r.cache
            /\ groups' = r.db.groups
            /\ group_lists' = r.db.group_lists
            /\ forward_lists' = r.db.forward_lists
            /\ admins' = r.db.admins
            /\ welcome_messages' = r.welcome
            /\ last_msg' = [sender |-> sender, msg |-> msg, ret |-> FALSE, sync |-> r.sync,
                             state |-> SessionState(operator_states, sender),
                             raised |-> TRUE, waits |-> r.waits, during |-> wphase]
    /\ intake_pc' = processMsg_except("Exception")
    /\ caught' = caught + 1
    /\ inbound' = inbound + 1
    /\ UNCHANGED <<source, workervars, resolvevars>>

FaultySenders == {"wxid_a1", "wxid_u1"}

processFaulty ==
    /\ inbound < MaxInputs
    /\ Intake(FaultySenders, InboundMsgs)

processFaultyRaises ==
    /\ inbound < MaxInputs
    /\ IntakeRaises(FaultySenders, InboundMsgs)

\* the worker is left out: it is blocked in forward_queue.get() of an empty queue
\* at the start and shares nothing else with the handling of a message
InitFaulty ==
    /\ InitInput
    /\ forward_queue = <<>>

NextFaulty ==
    \/ processFaulty
    \/ processFaultyRaises

SpecFaulty == InitFaulty /\ [][NextFaulty]_vars

(***************************************************************************)
(* The two threads step by step: the worker takes image_lock, sends,       *)
(* sleeps and wakes, while the intake thread handles private messages.     *)
(***************************************************************************)
\* the locks the handling of a private message acquires: handle_message and
\* _handle_forward_state have no with-block, download_image is called bare
HandlerLocks_download(msg) == IF msg.type = TYPE_IMAGE THEN {"image_lock"} ELSE {}

HandlerLocks(msg) == {}

\* "with self.image_lock:" of _forward_message, for an image message
Acquire ==
    /\ wpc = "send"
    /\ wphase = "run"
    /\ task.messages[mi].type = TYPE_IMAGE
    /\ image_lock = "free"
    /\ image_lock' = "worker"
    /\ wphase' = "locked"
    /\ UNCHANGED <<dbvars, dirvars, intakevars, forward_queue, out, resolvevars,
                   wpc, task, gi, mi, retries, success_count, failed_count, failed_messages,
                   group_failed_messages, calls, reports, dequeued, faults, budget,
                   attempt_ret, sleeps>>

\* the rest of the pass: the sends, the counters, and the sleep it ends in
Send ==
    /\ wpc = "send"
    /\ wphase = (IF task.messages[mi].type = TYPE_IMAGE THEN "locked" ELSE "run")
    /\ Pass(TRUE)

\* time.sleep returns
Wake ==
    /\ wphase \in {"backoff", "pacing"}
    /\ wphase' = "run"
    /\ UNCHANGED <<dbvars, dirvars, intakevars, forward_queue, out, resolvevars,
                   wpc, task, gi, mi, retries, success_count, failed_count, failed_messages,
                   group_failed_messages, calls, reports, dequeued, faults, budget,
                   image_lock, attempt_ret, sleeps>>

\* the status report, after the last sleep of the loops
ReportAwake ==
    /\ wphase = "run"
    /\ Report

ThreadMsgs ==
    {Msg(TYPE_TEXT, c) : c \in {<<"0">>, <<"1">>, <<"h", "i">>}}
    \cup {Msg(TYPE_IMAGE, <<"i", "m", "g">>)}

\* processMsg for the private message msg of the admin, on the intake thread:
\* it runs when the locks it acquires are free
processThread(msg) ==
    /\ inbound < MaxInputs
    /\ \A l \in HandlerLocks(msg) : l = "image_lock" /\ image_lock = "free"
    /\ Intake({"wxid_a1"}, {msg})

processThreads ==
    /\ intake_pc = "loop"
    /\ \E msg \in ThreadMsgs : processThread(msg)

InitThreads ==
    /\ groups = DatasetA.groups
    /\ group_lists = DatasetA.group_lists
    /\ forward_lists = DatasetA.forward_lists
    /\ admins = DatasetA.admins
    /\ source = DatasetA
    /\ notion_cache = <<DatasetA>>
    /\ \E st \in SessionsLeft("wxid_a1", {}) :
         /\ st.state \in {WAITING_MESSAGE, WAITING_CHOICE}
         /\ st.messages \in {<<>>, <<TextMsg>>}
         /\ operator_states = {st}
    /\ forward_queue = <<QueuedTask>>
    /\ submitted = forward_queue
    /\ enqueued = Len(forward_queue)
    /\ inbound = 0
    /\ intake_pc = "loop"
    /\ caught = 0
    /\ last_msg = NoMsg
    /\ out = <<>>
    /\ welcome_messages = [g \in GroupIds |-> <<>>]
    /\ InitWorker
    /\ budget = 1
    /\ selector = <<>>
    /\ resolved = NotResolved

NextThreads ==
    \/ processThreads
    \/ Dequeue
    \/ Acquire
    \/ Send
    \/ Wake
    \/ ReportAwake

SpecThreads == InitThreads /\ [][NextThreads]_vars

(***************************************************************************)
(* The worker alone, step by step, on one task with deliveries that fail.  *)
(***************************************************************************)
RetryTask == Task(<<TextMsg, ImageMsg>>, <<"g1", "g3">>, "wxid_a1")

InitRetry ==
    /\ groups = DatasetC.groups
    /\ group_lists = DatasetC.group_lists
    /\ forward_lists = DatasetC.forward_lists
    /\ admins = DatasetC.admins
    /\ source = DatasetC
    /\ notion_cache = <<DatasetC>>
    /\ operator_states = {}
    /\ forward_queue = <<RetryTask>>
    /\ inbound = 0
    /\ intake_pc = "loop"
    /\ caught = 0
    /\ last_msg = NoMsg
    /\ out = <<>>
    /\ enqueued = Len(forward_queue)
    /\ submitted = forward_queue
    /\ welcome_messages = [g \in GroupIds |-> <<>>]
    /\ InitWorker
    /\ budget = MaxDispatchFaults
    /\ selector = <<>>
    /\ resolved = NotResolved

NextRetry ==
    \/ Dequeue
    \/ Acquire
    \/ Send
    \/ Wake
    \/ ReportAwake

SpecRetry == InitRetry /\ [][NextRetry]_vars

(***************************************************************************)
(* The worker under a fair scheduler, two tasks waiting on the queue.      *)
(***************************************************************************)
FairTasks == <<Task(<<TextMsg>>, <<"g1">>, "wxid_a1"),
               Task(<<TextMsg, ImageMsg>>, <<"g3">>, SPECIAL_SENDER)>>

InitFair ==
    /\ groups = DatasetC.groups
    /\ group_lists = DatasetC.group_lists
    /\ forward_lists = DatasetC.forward_lists
    /\ admins = DatasetC.admins
    /\ source = DatasetC
    /\ notion_cache = <<DatasetC>>
    /\ operator_states = {}
    /\ forward_queue = FairTasks
    /\ inbound = 0
    /\ intake_pc = "loop"
    /\ caught = 0
    /\ last_msg = NoMsg
    /\ out = <<>>
    /\ enqueued = Len(forward_queue)
    /\ submitted = forward_queue
    /\ welcome_messages = [g \in GroupIds |-> <<>>]
    /\ InitWorker
    /\ budget = MaxDispatchFaults
    /\ selector = <<>>
    /\ resolved = NotResolved

\* the thread, once it is at the status, goes through one of its three ends
Reporting ==
    \/ Report
    \/ ReportRaises
    \/ ReportRaisesTwice

NextFair ==
    \/ Dequeue
    \/ Attempt
    \/ Report
    \/ ReportRaises
    \/ ReportRaisesTwice

\* the thread is scheduled whenever it can take a step; which answer the adapter
\* and the reply channel give is not the scheduler's choice
SpecFair ==
    /\ InitFair
    /\ [][NextFair]_vars
    /\ WF_vars(Dequeue)
    /\ WF_vars(Attempt)
    /\ WF_vars(Reporting)

(***************************************************************************)
(* The worker on one task for more than twenty groups.                     *)
(***************************************************************************)
PacedGroups == <<"r01", "r02", "r03", "r04", "r05", "r06", "r07", "r08", "r09", "r10",
                 "r11", "r12", "r13", "r14", "r15", "r16", "r17", "r18", "r19", "r20",
                 "r21">>

\* the place (1-based) of a group in the task
PositionOf(g) == CHOOSE n \in 1..Len(PacedGroups) : PacedGroups[n] = g

PacedTask == Task(<<TextMsg, TextMsg>>, PacedGroups, "wxid_a1")

InitPaced ==
    /\ groups = DatasetC.groups
    /\ group_lists = DatasetC.group_lists
    /\ forward_lists = DatasetC.forward_lists
    /\ admins = DatasetC.admins
    /\ source = DatasetC
    /\ notion_cache = <<DatasetC>>
    /\ operator_states = {}
    /\ forward_queue = <<PacedTask>>
    /\ inbound = 0
    /\ intake_pc = "loop"
    /\ caught = 0
    /\ last_msg = NoMsg
    /\ out = <<>>
    /\ enqueued = Len(forward_queue)
    /\ submitted = forward_queue
    /\ welcome_messages = [g \in GroupIds |-> <<>>]
    /\ InitWorker
    /\ budget = MAX_RETRIES
    /\ selector = <<>>
    /\ resolved = NotResolved

NextPaced ==
    \/ Dequeue
    \/ Send
    \/ Wake
    \/ ReportAwake

SpecPaced == InitPaced /\ [][NextPaced]_vars

\* the session of the admin is in state st
AdminIn(st) == SessionState(operator_states, "wxid_a1") = st

(***************************************************************************)
(* The entry keyword sent during a session that holds a message.           *)
(***************************************************************************)
\* the message the session collected before the entry keyword
StaleMsg == Msg(TYPE_TEXT, <<"o", "l", "d">>)

ReentryMsgs ==
    {Msg(TYPE_TEXT, c) : c \in {NCC, <<"0">>, <<"1">>, <<"2">>, <<"5">>, <<"h", "i">>}}
    \cup {ImageMsg}

\* a session of the admin in each state, holding the message
InitReentry ==
    /\ groups = DatasetA.groups
    /\ group_lists = DatasetA.group_lists
    /\ forward_lists = DatasetA.forward_lists
    /\ admins = DatasetA.admins
    /\ source = DatasetA
    /\ notion_cache = <<DatasetA>>
    /\ \E st \in {WAITING_CHOICE_MODE, WAITING_MESSAGE, WAITING_CHOICE,
                   WELCOME_GROUP_CHOICE, WELCOME_MANAGE, WELCOME_COLLECTING} :
         operator_states =
            {[OperatorState("wxid_a1") EXCEPT
                 !.state = st, !.messages = <<StaleMsg>>,
                 !.current_group = IF st \in {WELCOME_MANAGE, WELCOME_COLLECTING}
                                   THEN "g1" ELSE None]}
    /\ forward_queue = <<>>
    /\ submitted = <<>>
    /\ enqueued = 0
    /\ inbound = 0
    /\ intake_pc = "loop"
    /\ caught = 0
    /\ last_msg = NoMsg
    /\ out = <<>>
    /\ welcome_messages = [g \in GroupIds |-> <<>>]
    /\ InitWorker
    /\ budget = 0
    /\ selector = <<>>
    /\ resolved = NotResolved

\* the entry keyword arrives
reenter ==
    /\ inbound = 0
    /\ Intake({"wxid_a1"}, {Msg(TYPE_TEXT, NCC)})

\* the messages after it
processReentry ==
    /\ inbound \in 1..(MaxReentry - 1)
    /\ Intake({"wxid_a1"}, ReentryMsgs)

NextReentry ==
    \/ reenter
    \/ processReentry

SpecReentry == InitReentry /\ [][NextReentry]_vars

(***************************************************************************)
(* The collection of images, one of them an image whose download fails.    *)
(***************************************************************************)
\* the image wcf.download_image does not deliver
FailedImage == Msg(TYPE_IMAGE, <<"b", "a", "d">>)

CollectMsgs ==
    {Msg(TYPE_TEXT, c) : c \in {<<"0">>, <<"1">>, <<"2">>, <<"h", "i">>}} \cup {ImageMsg}

\* the replies hold the acknowledgement with the running count
Acked(replies) == \E n \in 1..Len(replies) : replies[n].kind = "collected"

InitCollect ==
    /\ groups = DatasetA.groups
    /\ group_lists = DatasetA.group_lists
    /\ forward_lists = DatasetA.forward_lists
    /\ admins = DatasetA.admins
    /\ source = DatasetA
    /\ notion_cache = <<DatasetA>>
    /\ \E ms \in {<<>>, <<TextMsg>>} :
         operator_states = {[OperatorState("wxid_a1") EXCEPT
                                !.state = WAITING_MESSAGE, !.messages = ms]}
    /\ forward_queue = <<>>
    /\ submitted = <<>>
    /\ enqueued = 0
    /\ inbound = 0
    /\ intake_pc = "loop"
    /\ caught = 0
    /\ last_msg = NoMsg
    /\ out = <<>>
    /\ welcome_messages = [g \in GroupIds |-> <<>>]
    /\ InitWorker
    /\ budget = 0
    /\ selector = <<>>
    /\ resolved = NotResolved

\* a message whose download, if it is an image, gives any of its answers
processCollect ==
    /\ inbound < MaxInbound
    /\ Intake({"wxid_a1"}, CollectMsgs)

\* the image whose download returns no file, times out or raises
processFailedImage ==
    /\ inbound < MaxInbound
    /\ Intake({"wxid_a1"}, {FailedImage})
    /\ AdminIn(WAITING_MESSAGE) => ~Acked(out')

NextCollect ==
    \/ processCollect
    \/ processFailedImage

SpecCollect == InitCollect /\ [][NextCollect]_vars

(***************************************************************************)
(* The selection of the target lists statement by statement: the reply     *)
(* "开始转发" and forward_queue.put are two steps of the intake thread, and *)
(* the worker runs between them.                                            *)
(***************************************************************************)
\* a selection that puts the task before it replies
ChoiceSteps_putfirst == <<"put", "reply">>

\* the order of the two statements (lines 244 and 247)
ChoiceSteps == <<"reply", "put">>

StartedMsgs == {Msg(TYPE_TEXT, <<"1">>), Msg(TYPE_TEXT, <<"2">>), Msg(TYPE_TEXT, NCC), TextMsg}

\* the branch of WAITING_CHOICE that starts a job: a valid selector, collected
\* messages, and groups to forward to
Selecting(msg) ==
    /\ AdminIn(WAITING_CHOICE)
    /\ SelectorOk(msg.content)
    /\ StateOf(operator_states, "wxid_a1").messages # <<>>
    /\ ResolveGroups(SelectorIds(msg.content)) # {}

\* one of the two statements, for the selector msg of sender: what it does to the
\* replies of this message (sent so far: sent) and to the queue
ChoiceStatement(kind, msg, sender, sent) ==
    LET st == StateOf(operator_states, sender)
        targets == ResolveGroups(SelectorIds(msg.content))
    IN  IF kind = "reply"
        THEN /\ out' = Append(sent, Reply(sender, "started", Cardinality(targets)))
             /\ UNCHANGED <<forward_queue, enqueued, submitted>>
        ELSE /\ \E grouplist \in Perms(targets) :
                  LET item == <<Task(st.messages, grouplist, sender)>>
                  IN  /\ forward_queue' = put(forward_queue, item)
                      /\ submitted' = submitted \o item
             /\ enqueued' = enqueued + 1
             /\ out' = sent

\* a selector that resolves to groups is handled in WAITING_CHOICE: the first of
\* the two statements
chooseFirst ==
    /\ intake_pc = "loop"
    /\ inbound < MaxInputs
    /\ enqueued < MaxJobs
    /\ \E msg \in StartedMsgs :
         /\ Selecting(msg)
         /\ ChoiceStatement(ChoiceSteps[1], msg, "wxid_a1", <<>>)
         /\ last_msg' = [sender |-> "wxid_a1", msg |-> msg, ret |-> TRUE, sync |-> "none",
                         state |-> WAITING_CHOICE, raised |-> FALSE, waits |-> <<>>,
                         during |-> wphase]
    /\ inbound' = inbound + 1
    /\ intake_pc' = "second"
    /\ UNCHANGED <<dbvars, dirvars, workervars, resolvevars, operator_states, caught,
                   welcome_messages>>

\* the second statement, then _reset_operator_state and return True
chooseSecond ==
    /\ intake_pc = "second"
    /\ ChoiceStatement(ChoiceSteps[2], last_msg.msg, "wxid_a1", out)
    /\ operator_states' = _reset_operator_state(operator_states, "wxid_a1")
    /\ intake_pc' = "loop"
    /\ UNCHANGED <<dbvars, dirvars, workervars, resolvevars, caught, inbound, last_msg,
                   welcome_messages>>

\* every other message, handled in one step
processStarted ==
    /\ inbound < MaxInputs
    /\ Intake({"wxid_a1"}, {msg \in StartedMsgs : ~Selecting(msg)})

InitStarted ==
    /\ groups = DatasetA.groups
    /\ group_lists = DatasetA.group_lists
    /\ forward_lists = DatasetA.forward_lists
    /\ admins = DatasetA.admins
    /\ source = DatasetA
    /\ notion_cache = <<DatasetA>>
    /\ \E st \in SessionsLeft("wxid_a1", {}) :
         /\ st.state \in {WAITING_MESSAGE, WAITING_CHOICE}
         /\ st.messages = <<TextMsg>>
         /\ operator_states = {st}
    /\ forward_queue \in {<<>>, <<QueuedTask>>}
    /\ submitted = forward_queue
    /\ enqueued = Len(forward_queue)
    /\ inbound = 0
    /\ intake_pc = "loop"
    /\ caught = 0
    /\ last_msg = NoMsg
    /\ out = <<>>
    /\ welcome_messages = [g \in GroupIds |-> <<>>]
    /\ InitWorker
    /\ budget = 0
    /\ selector = <<>>
    /\ resolved = NotResolved

NextStarted ==
    \/ processStarted
    \/ chooseFirst
    \/ chooseSecond
    \/ Dequeue
    \/ Attempt
    \/ Report

SpecStarted == InitStarted /\ [][NextStarted]_vars

(***************************************************************************)
(* Two operators with a session each, their messages arriving in any order *)
(***************************************************************************)
Operators == {"wxid_a1", SPECIAL_SENDER}

\* what the operator has collected: a text for the one, an image for the other
CollectedBy(operator_id) == IF operator_id = "wxid_a1" THEN <<TextMsg>> ELSE <<ImageMsg>>

InitOperators ==
    /\ groups = DatasetA.groups
    /\ group_lists = DatasetA.group_lists
    /\ forward_lists = DatasetA.forward_lists
    /\ admins = DatasetA.admins
    /\ source = DatasetA
    /\ notion_cache = <<DatasetA>>
    /\ \E f \in [Operators -> {IDLE, WAITING_CHOICE_MODE, WAITING_MESSAGE, WAITING_CHOICE,
                                 WELCOME_MANAGE, WELCOME_COLLECTING}] :
         operator_states =
            {st \in UNION {SessionsLeft(op, {"g1"}) : op \in Operators} :
                /\ st.state = f[st.id]
                /\ st.messages = IF st.state \in {WAITING_CHOICE_MODE, WELCOME_MANAGE}
                                 THEN <<>> ELSE CollectedBy(st.id)}
    /\ forward_queue = <<>>
    /\ submitted = <<>>
    /\ enqueued = 0
    /\ inbound = 0
    /\ intake_pc = "loop"
    /\ caught = 0
    /\ last_msg = NoMsg
    /\ out = <<>>
    /\ welcome_messages = [g \in GroupIds |-> <<>>]
    /\ InitWorker
    /\ budget = 0
    /\ selector = <<>>
    /\ resolved = NotResolved

processOperators ==
    /\ inbound < MaxInputs
    /\ Intake(Operators, InputMsgs)

NextOperators ==
    \/ processOperators
    \/ Dequeue
    \/ Attempt
    \/ Report

SpecOperators == InitOperators /\ [][NextOperators]_vars

(***************************************************************************)
(* processMsg from its top, for a private message that is not the robot's  *)
(* own: the scheduler command and the system message come before the       *)
(* routing to NCCManager.                                                  *)
(***************************************************************************)
\* the prefix "$time" of a scheduler command (here "$") and the text
\* "以上是打招呼的内容" of a new friend's greeting (here "~")
TIME_PREFIX == <<"$">>
GREETING == <<"~">>
TYPE_SYSTEM == 10000

\* str.startswith
startswith(s, prefix) ==
    /\ Len(prefix) <= Len(s)
    /\ SubSeq(s, 1, Len(prefix)) = prefix

\* the operator "in" of two strings
Within(sub, s) ==
    \E k \in 0..(Len(s) - Len(sub)) : SubSeq(s, k + 1, k + Len(sub)) = sub

\* Job.handle_command: None for a message that does not start with "$time",
\* and for one that does the text that cancel_task, list_tasks or add_task gives
\* (or the text of the except), never an empty one
handle_command(message, sender) ==
    IF ~startswith(message, TIME_PREFIX) THEN None ELSE "scheduler"

\* sayHiToNewFriend: the welcome of a new friend, for the greeting only
sayHiToNewFriend(msg, sender) ==
    IF Within(GREETING, msg.content) THEN <<Reply(sender, "friend_welcome", 0)>> ELSE <<>>

\* processMsg for a private message of another account: "2. 处理定时任务命令",
\* "3. 处理系统消息" (the private branch), then the routing of private messages
processPrivateMsg(msg, sender, S) ==
    IF handle_command(msg.content, sender) # None
    THEN {Result(S, <<>>, <<Reply(sender, handle_command(msg.content, sender), 0)>>, FALSE)}
    ELSE IF msg.type = TYPE_SYSTEM
    THEN {Result(S, <<>>, sayHiToNewFriend(msg, sender), FALSE)}
    ELSE PrivateOutcomes(msg, sender, S)

RoutingMsgs ==
    InputMsgs \cup {Msg(TYPE_TEXT, <<"$", "1">>), Msg(TYPE_SYSTEM, <<"~">>),
                    Msg(TYPE_SYSTEM, <<"h", "i">>)}

processRouting ==
    /\ inbound < MaxInputs
    /\ intake_pc = "loop"
    /\ \E msg \in RoutingMsgs :
         \E r \in processPrivateMsg(msg, "wxid_a1", operator_states) :
            /\ WithinBounds(r)
            /\ operator_states' = r.S
            /\ forward_queue' = put(forward_queue, r.put)
            /\ enqueued' = enqueued + Len(r.put)
            /\ submitted' = submitted \o r.put
            /\ out' = r.out
            /\ notion_cache' = r.cache
            /\ groups' = r.db.groups
            /\ group_lists' = r.db.group_lists
            /\ forward_lists' = r.db.forward_lists
            /\ admins' = r.db.admins
            /\ welcome_messages' = r.welcome
            /\ last_msg' = [sender |-> "wxid_a1", msg |-> msg, ret |-> r.ret, sync |-> r.sync,
                             state |-> SessionState(operator_states, "wxid_a1"),
                             raised |-> FALSE, waits |-> r.waits, during |-> wphase]
    /\ inbound' = inbound + 1
    /\ UNCHANGED <<source, workervars, resolvevars, intake_pc, caught>>

NextRouting ==
    \/ processRouting
    \/ Dequeue
    \/ Attempt
    \/ Report

SpecRouting == InitInput /\ [][NextRouting]_vars

(***************************************************************************)
(* SpecScenario: one admin goes through a forward from the entry keyword   *)
(* on, with texts only, while the worker runs against a Delivery Adapter   *)
(* that never fails. The worker thread is always scheduled.                *)
(***************************************************************************)
ScenarioMsgs == {Msg(TYPE_TEXT, NCC), Msg(TYPE_TEXT, <<"1">>), TextMsg}

InitScenario ==
    /\ \E d \in {DatasetA, DatasetD} :
         /\ groups = d.groups
         /\ group_lists = d.group_lists
         /\ forward_lists = d.forward_lists
         /\ admins = d.admins
         /\ source = d
         /\ notion_cache = <<d>>
    /\ InitIntake
    /\ InitWorker
    /\ budget = 0
    /\ selector = <<>>
    /\ resolved = NotResolved

processScenario ==
    /\ inbound < MaxInbound
    /\ Intake({"wxid_a1"}, ScenarioMsgs)

NextScenario ==
    \/ processScenario
    \/ Dequeue
    \/ Attempt
    \/ Report

SpecScenario ==
    /\ InitScenario
    /\ [][NextScenario]_vars
    /\ WF_vars(Dequeue)
    /\ WF_vars(Attempt)
    /\ WF_vars(Report)

(***************************************************************************)
(* Properties.                                                             *)
(***************************************************************************)
SessionsOf(operator_id) == {s \in operator_states : s.id = operator_id}

\* the intake thread has just accepted the entry keyword of last_msg.sender
EntryAccepted ==
    /\ last_msg.sender \in Senders
    /\ Strip(Lower(last_msg.msg.content)) = NCC
    /\ last_msg.ret

\* C1: the session store never holds two sessions of one operator, and an
\* accepted entry keyword leaves its sender with exactly one session, also when
\* the sender already had one.
C1_OneSessionPerOperator ==
    /\ \A op \in Senders : Cardinality(SessionsOf(op)) <= 1
    /\ EntryAccepted => Cardinality(SessionsOf(last_msg.sender)) = 1

\* an entry keyword was accepted from an operator whose session had already
\* collected a message
C1_Witness ==
    /\ EntryAccepted
    /\ \E s \in SessionsOf(last_msg.sender) :
         s.state = WAITING_CHOICE_MODE /\ s.messages # <<>>

\* operator op is collecting and has collected nothing
CollectingNothing(op) ==
    /\ HasState(operator_states, op)
    /\ StateOf(operator_states, op).state = WAITING_MESSAGE
    /\ StateOf(operator_states, op).messages = <<>>

\* the step handles the proceed token "1" of op
ProceedStep(op) ==
    /\ inbound' = inbound + 1
    /\ last_msg'.sender = op
    /\ last_msg'.msg.content = <<"1">>

NoEmptySelection ==
    /\ \A s \in operator_states : s.state = WAITING_CHOICE => s.messages # <<>>
    /\ \A i \in 1..Len(forward_queue) : forward_queue[i].messages # <<>>
    /\ dequeued > 0 => task.messages # <<>>

\* C2: the proceed token of an operator who is collecting and has collected
\* nothing changes neither the session store nor the queue; no session is in
\* WAITING_CHOICE without a collected message, and no task with an empty message
\* sequence is on the queue or with the worker.
C2_ProceedNeedsMessages ==
    /\ []NoEmptySelection
    /\ [][\A op \in Senders : CollectingNothing(op) /\ ProceedStep(op) =>
            /\ operator_states' = operator_states
            /\ forward_queue' = forward_queue]_vars

\* the proceed token was just refused: its sender is still collecting, with nothing
C2_Witness ==
    /\ last_msg.sender \in Senders
    /\ last_msg.msg.content = <<"1">>
    /\ out = <<Reply(last_msg.sender, "no_messages", 0)>>
    /\ CollectingNothing(last_msg.sender)

\* the groups flagged allow_forward
Forwardable == {groups[i].wxid : i \in {k \in 1..Len(groups) : groups[k].allow_forward}}

\* the forwardable member groups of list l
ForwardableMembers(l) == {w \in Forwardable : <<w, l>> \in group_lists}

\* the lists a selector of SpecResolve names
NamedLists(sel) ==
    CASE sel = <<"2">> -> {2}
      [] sel = <<"3">> -> {3}
      [] sel = <<"2", "+", "3">> -> {2, 3}
      [] sel = <<"3", "+", "2">> -> {2, 3}
      [] sel = <<"2", "+", "2">> -> {2}
      [] sel = <<" ", "2", "+", " ", "3">> -> {2, 3}
      [] sel = <<"1">> -> {1}
      [] sel = <<"1", "+", "2">> -> {1, 2}
      [] sel = <<"5">> -> {5}
      [] OTHER -> {}

\* C3 (as amended): a selector that names lists other than 1 resolves to exactly
\* the forwardable member groups of the named lists, each once; a selector that
\* contains 1, such as "1+2", resolves to every forwardable group that is a member
\* of at least one list.
C3_SelectorUnion ==
    selector # <<>> /\ NamedLists(selector) # {} =>
        /\ resolved.put = Cardinality(resolved.groups)
        /\ resolved.groups =
             IF 1 \in NamedLists(selector)
             THEN {w \in Forwardable : \E p \in group_lists : p[1] = w}
             ELSE UNION {ForwardableMembers(l) : l \in NamedLists(selector)}

\* C3 as stated: "1+2" resolves to the forwardable members of list 1 and of list 2
C3_OneAndTwo ==
    selector = <<"1", "+", "2">> =>
        resolved.groups = ForwardableMembers(1) \cup ForwardableMembers(2)

\* "2+3" was resolved to the members of both lists, a member of list 2 that is
\* not forwardable being left out
C3_Witness ==
    /\ selector = <<"2", "+", "3">>
    /\ resolved.reply = "started"
    /\ ForwardableMembers(2) \ ForwardableMembers(3) # {}
    /\ ForwardableMembers(3) \ ForwardableMembers(2) # {}
    /\ \E p \in group_lists : p[2] = 2 /\ p[1] \notin Forwardable

\* C4: the "all groups" selector resolves to every group flagged allow_forward,
\* also one that is a member of no list.
C4_AllIsEveryForwardable ==
    selector = <<"1">> => resolved.groups = Forwardable

\* C5: the "all groups" selector resolves to the union of groupsForList(l)
\* (get_groups_by_list_id) over the lists with at least one allow_forward group.
C5_AllIsUnionOfLists ==
    selector = <<"1">> =>
        resolved.groups =
            UNION {get_groups_by_list_id(l) : l \in {k \in ListIds : ForwardableMembers(k) # {}}}

\* the Delivery Adapter invocations made for job j, in order
JobCalls(j) == SelectSeq(calls, LAMBDA c : c.job = j)

\* the (group, message) pairs of job j that were delivered
Delivered(j) == {<<calls[i].group, calls[i].msg>> :
                   i \in {k \in 1..Len(calls) : calls[k].job = j /\ calls[k].ok}}

\* the (group, message) pairs of job j that failed on the last allowed attempt
Exhausted(j) ==
    {<<calls[i].group, calls[i].msg>> :
       i \in {k \in 1..Len(calls) : calls[k].job = j /\ ~calls[k].ok
                                      /\ calls[k].attempt = MAX_RETRIES}} \ Delivered(j)

NoDeliveryFailed(j) == \A i \in 1..Len(calls) : calls[i].job = j => calls[i].ok

\* C6: while no delivery of the current job has failed, its invocations are the
\* first ones of the group-major, message-minor sequence over the task's groups
\* and messages, one per pair; when the job is finished there are exactly M x K.
C6_GroupMajorOrder ==
    LET cs == JobCalls(dequeued)
        K == Len(task.messages)
        M == Len(task.groups)
    IN  dequeued > 0 /\ NoDeliveryFailed(dequeued) =>
          /\ Len(cs) <= M * K
          /\ \A i \in 1..Len(cs) :
               /\ cs[i].group = task.groups[((i - 1) \div K) + 1]
               /\ cs[i].msg = ((i - 1) % K) + 1
          /\ wpc # "send" => Len(cs) = M * K

\* a finished job of two groups and two messages without a failed delivery
C6_Witness ==
    /\ wpc = "get"
    /\ reports # <<>>
    /\ dequeued = 1
    /\ NoDeliveryFailed(1)
    /\ Len(task.groups) = 2
    /\ Len(task.messages) = 2
    /\ Len(JobCalls(1)) = 4

\* C7: no pair is attempted more than MAX_RETRIES times, no invocation is made
\* for a pair after one that succeeded for it, and success_count is the number of
\* pairs of the current job that were delivered, whatever failed before.
C7_RetryThenSuccess ==
    /\ \A i \in 1..Len(calls) : calls[i].attempt <= MAX_RETRIES
    /\ \A i, k \in 1..Len(calls) :
         (/\ i < k
          /\ calls[i].job = calls[k].job
          /\ calls[i].group = calls[k].group
          /\ calls[i].msg = calls[k].msg) => ~calls[i].ok
    /\ success_count = Cardinality(Delivered(dequeued))

\* a pair failed twice and was delivered by the third attempt; the job reported
\* it as a success
C7_Witness ==
    /\ reports # <<>>
    /\ reports[Len(reports)].kind = "summary"
    /\ reports[Len(reports)].failed = 0
    /\ reports[Len(reports)].success >= 1
    /\ \E i \in 1..Len(calls) :
         /\ i + 2 <= Len(calls)
         /\ calls[i].job = dequeued /\ calls[i + 2].job = dequeued
         /\ calls[i].attempt = 1 /\ ~calls[i].ok
         /\ calls[i + 1].attempt = 2 /\ ~calls[i + 1].ok
         /\ calls[i + 2].attempt = 3 /\ calls[i + 2].ok
         /\ calls[i + 2].group = calls[i].group /\ calls[i + 2].msg = calls[i].msg

\* the groups of job j with a pair that used up its retries
ExhaustedGroups(j) == {p[1] : p \in Exhausted(j)}

\* C8: every summary reports the delivered pairs of its job as successes and the
\* pairs that used up their retries as failures, the two adding up to
\* total_messages x total_groups of that job, and its breakdown names exactly the
\* groups with a failed pair.
C8_SummaryCounts ==
    \A n \in 1..Len(reports) :
        reports[n].kind = "summary" =>
            LET r == reports[n]
            IN  /\ r.success = Cardinality(Delivered(r.job))
                /\ r.failed = Cardinality(Exhausted(r.job))
                /\ r.success + r.failed = r.total_messages * r.total_groups
                /\ r.job = dequeued =>
                     /\ r.total_messages = Len(task.messages)
                     /\ r.total_groups = Len(task.groups)
                /\ Len(r.details) = Cardinality(ExhaustedGroups(r.job))
                /\ {r.details[i].group : i \in 1..Len(r.details)} =
                     {IF get_room_name(g) # "" THEN get_room_name(g) ELSE g :
                        g \in ExhaustedGroups(r.job)}

\* one group always failed and the other always succeeded: success = K,
\* failure = K and the failing group is named by its room name
C8_Witness ==
    \E n \in 1..Len(reports) :
        /\ reports[n].kind = "summary"
        /\ reports[n].total_groups = 2
        /\ reports[n].success = reports[n].total_messages
        /\ reports[n].failed = reports[n].total_messages
        /\ Len(reports[n].details) = 1
        /\ reports[n].details[1].group = "room one"
        /\ ExhaustedGroups(reports[n].job) = {"g1"}

\* a message was handled and the sync it ran failed
SyncFailedStep == inbound' = inbound + 1 /\ last_msg'.sync = "error"

\* C9: a sync whose fetch fails leaves the admin check, the groups of every list
\* and the all-groups resolution as they were.
C9_FailedSyncKeepsReads ==
    [][SyncFailedStep =>
         /\ get_admin_wxids' = get_admin_wxids
         /\ \A l \in ListIds :
              /\ ListGroupsQuery(<<l>>)' = ListGroupsQuery(<<l>>)
              /\ get_groups_by_list_id(l)' = get_groups_by_list_id(l)
         /\ AllGroupsQuery' = AllGroupsQuery
         /\ ForwardListsQuery' = ForwardListsQuery]_vars

\* a sync an admin ran from the menu failed, over a cache that has admins and
\* forwardable groups
C9_Witness ==
    /\ last_msg.sync = "error"
    /\ last_msg.sender \in get_admin_wxids
    /\ AllGroupsQuery # {}
    /\ notion_cache = <<>>

\* C10: when the sync run from the menu fails, no success confirmation is among
\* the replies, and the session stays in the menu.
C10_FailedSyncNotConfirmed ==
    last_msg.sync = "error" /\ last_msg.sender \in Senders =>
        /\ \A i \in 1..Len(out) : out[i].kind # "sync_ok"
        /\ \E st \in SessionsOf(last_msg.sender) : st.state = WAITING_CHOICE_MODE

\* the intake thread handles the text c sent by op
Handles(op, c) ==
    /\ inbound' = inbound + 1
    /\ last_msg'.sender = op
    /\ last_msg'.msg = Msg(TYPE_TEXT, c)

\* C11: in every state of a session the text "0" deletes the sender's session and
\* no other, is answered by the one exit confirmation, and puts nothing on the
\* queue.
C11_ExitFromAnyState ==
    [][\A op \in Senders :
         Handles(op, <<"0">>) /\ SessionState(operator_states, op) # IDLE =>
            /\ operator_states' = operator_states \ SessionsOf(op)
            /\ out' = <<Reply(op, "exited", 0)>>
            /\ last_msg'.ret
            /\ forward_queue' = forward_queue
            /\ submitted' = submitted]_vars

\* "0" was handled for a session that was choosing its lists: the session is gone
C11_Witness ==
    /\ last_msg.msg.content = <<"0">>
    /\ last_msg.state = WAITING_CHOICE
    /\ SessionsOf(last_msg.sender) = {}
    /\ out = <<Reply(last_msg.sender, "exited", 0)>>

\* the replies the worker sent for job j
JobReports(j) == SelectSeq(reports, LAMBDA r : r.job = j)

\* the worker holds the task put dequeued-th, the queue holds the tasks put after
\* it in the order of the puts, and the log of invocations is sorted by job
TakenInPutOrder ==
    /\ dequeued > 0 => task = submitted[dequeued]
    /\ forward_queue = SubSeq(submitted, dequeued + 1, Len(submitted))
    /\ \A i \in 1..Len(calls) :
         /\ calls[i].job \in 1..dequeued
         /\ i < Len(calls) => calls[i].job <= calls[i + 1].job
    /\ \A n \in 1..Len(reports) :
         /\ reports[n].job \in 1..dequeued
         /\ n < Len(reports) => reports[n].job < reports[n + 1].job

\* an invocation is made for the job taken last, after the reply of every job
\* before it, and no invocation is made for a job once its reply is sent
OneJobAtATime ==
    /\ calls' # calls =>
         /\ Len(calls') > Len(calls)
         /\ SubSeq(calls', 1, Len(calls)) = calls
         /\ \A i \in (Len(calls) + 1)..Len(calls') : calls'[i].job = dequeued
         /\ \A j \in 1..(dequeued - 1) : Len(JobReports(j)) = 1
         /\ JobReports(dequeued) = <<>>
         /\ reports' = reports
    /\ reports' # reports =>
         /\ reports' = Append(reports, reports'[Len(reports')])
         /\ reports'[Len(reports')].job = dequeued
         /\ calls' = calls

\* C12: the worker takes the tasks in the order they were put, and every
\* invocation and the reply of a job come before the first invocation of the job
\* put after it.
C12_JobsInPutOrder == []TakenInPutOrder /\ [][OneJobAtATime]_vars

\* two jobs of different operators were on the queue together and both are done
C12_Witness ==
    /\ Len(submitted) = 2
    /\ submitted[1].operator_id # submitted[2].operator_id
    /\ dequeued = 2
    /\ Len(reports) = 2
    /\ \E i, k \in 1..Len(calls) : calls[i].job = 1 /\ calls[k].job = 2

\* the summaries the worker sent for job j
JobSummaries(j) == SelectSeq(reports, LAMBDA r : r.job = j /\ r.kind = "summary")

\* job j is over: a later task was taken, or the worker is back at the queue or gone
JobOver(j) == j < dequeued \/ (j = dequeued /\ wpc \in {"get", "dead"})

\* C13: every task taken from the queue gets exactly one summary, sent to the
\* operator who put the task, and a summary is sent only when every pair of the
\* task is delivered or has used up its retries.
C13_OneSummaryPerJob ==
    \A j \in 1..dequeued :
        /\ Len(JobSummaries(j)) <= 1
        /\ JobOver(j) => Len(JobSummaries(j)) = 1
        /\ \A n \in 1..Len(JobSummaries(j)) :
             /\ JobSummaries(j)[n].to = submitted[j].operator_id
             /\ Cardinality(Delivered(j) \cup Exhausted(j)) =
                  Len(submitted[j].messages) * Len(submitted[j].groups)

\* the (group, message) pairs of job j the worker made an invocation for
Attempted(j) == {<<calls[i].group, calls[i].msg>> :
                   i \in {k \in 1..Len(calls) : calls[k].job = j}}

\* the (group, message) pairs of the task put j-th
PairsOf(j) == SeqRange(submitted[j].groups) \X (1..Len(submitted[j].messages))

\* C14: when the worker is through with a task, every pair of the task was
\* attempted, whatever pairs used up their retries on the way.
C14_FailureDoesNotAbort ==
    \A j \in 1..dequeued :
        (j < dequeued \/ wpc # "send") => Attempted(j) = PairsOf(j)

\* the first pair of a task of two groups and two messages used up its retries
\* and the three pairs after it were delivered
C14_Witness ==
    /\ dequeued = 1
    /\ wpc = "get"
    /\ Len(task.groups) = 2
    /\ Len(task.messages) = 2
    /\ Exhausted(1) = {<<task.groups[1], 1>>}
    /\ Delivered(1) = PairsOf(1) \ Exhausted(1)

\* the groups a selector stands for: the forwardable members of the lists it
\* names, or, when it names 1, the forwardable members of any list
ExpectedGroups(sel) ==
    IF 1 \in NamedLists(sel)
    THEN {w \in Forwardable : \E p \in group_lists : p[1] = w}
    ELSE UNION {ForwardableMembers(l) : l \in NamedLists(sel)}

NumericSelectors == {<<"1">>, <<"2">>, <<"3">>, <<"5">>, <<"2", "+", "3">>}

\* C15: a selector that stands for at least one group, handled for a session that
\* is choosing its lists, puts exactly one task at the end of the queue: the
\* session's messages in the order collected, each of the groups once, and the
\* sender; the sender's session is deleted and the start is announced.
C15_SelectionEnqueuesOneJob ==
    [][\A op \in Senders : \A c \in NumericSelectors :
         (/\ Handles(op, c)
          /\ SessionState(operator_states, op) = WAITING_CHOICE
          /\ ExpectedGroups(c) # {}) =>
            /\ Len(forward_queue') = Len(forward_queue) + 1
            /\ SubSeq(forward_queue', 1, Len(forward_queue)) = forward_queue
            /\ LET t == forward_queue'[Len(forward_queue')]
               IN  /\ t.messages = StateOf(operator_states, op).messages
                   /\ t.operator_id = op
                   /\ SeqRange(t.groups) = ExpectedGroups(c)
                   /\ Len(t.groups) = Cardinality(ExpectedGroups(c))
            /\ operator_states' = operator_states \ SessionsOf(op)
            /\ out' = <<Reply(op, "started", Cardinality(ExpectedGroups(c)))>>]_vars

\* "2+3" was handled for a session holding a text and then an image: the task put
\* last holds them in that order for two groups, and the session is gone
C15_Witness ==
    /\ last_msg.msg.content = <<"2", "+", "3">>
    /\ last_msg.state = WAITING_CHOICE
    /\ submitted # <<>>
    /\ submitted[Len(submitted)].messages = <<TextMsg, ImageMsg>>
    /\ Len(submitted[Len(submitted)].groups) = 2
    /\ submitted[Len(submitted)].operator_id = last_msg.sender
    /\ SessionsOf(last_msg.sender) = {}
    /\ out = <<Reply(last_msg.sender, "started", 2)>>

\* C16: a numeric selector that stands for no forwardable group, handled for a
\* session that is choosing its lists, changes neither the session (state and
\* messages) nor the queue and is answered by the no-groups reply.
C16_EmptyResolution ==
    [][\A op \in Senders : \A c \in NumericSelectors :
         (/\ Handles(op, c)
          /\ SessionState(operator_states, op) = WAITING_CHOICE
          /\ ExpectedGroups(c) = {}) =>
            /\ operator_states' = operator_states
            /\ forward_queue' = forward_queue
            /\ submitted' = submitted
            /\ out' = <<Reply(op, "no_groups", 0)>>]_vars

\* "3" was handled while list 3 held only a group that is not forwardable: the
\* session is still choosing and holds its two messages
C16_Witness ==
    /\ last_msg.msg.content = <<"3">>
    /\ last_msg.state = WAITING_CHOICE
    /\ get_groups_by_list_id(3) # {}
    /\ out = <<Reply(last_msg.sender, "no_groups", 0)>>
    /\ \E st \in SessionsOf(last_msg.sender) :
         st.state = WAITING_CHOICE /\ st.messages = <<TextMsg, ImageMsg>>

\* texts that are no number, and those among them that are no selector either
NotANumber == {<<"h", "i">>, <<"2", "+", "3">>, <<"1", "+">>, <<"1", "+", "a">>}
NotASelector == {<<"h", "i">>, <<"1", "+">>, <<"1", "+", "a">>}

\* the text c is malformed input for a session in state st: the reply kind it is
\* to be answered with, None when c is not malformed there
RepromptFor(st, c) ==
    CASE st = WAITING_CHOICE_MODE /\ c \in NotANumber -> "invalid_option"
      [] st = WAITING_CHOICE /\ c \in NotASelector -> "invalid_selector"
      [] st \in {WELCOME_GROUP_CHOICE, WELCOME_MANAGE} /\ c \in NotANumber -> "invalid_number"
      [] st = WELCOME_GROUP_CHOICE /\ c = <<"5">> /\ Len(get_welcome_enabled_groups) < 5 ->
           "invalid_choice"
      [] st = WELCOME_GROUP_CHOICE /\ c = <<"3">> /\ Len(get_welcome_enabled_groups) < 3 ->
           "invalid_choice"
      [] st = WELCOME_MANAGE /\ c \in {<<"3">>, <<"5">>} -> "invalid_choice"
      [] OTHER -> None

\* C17: malformed input (an unknown menu option, a selector with an element that
\* is no number, a choice that is no number or out of range) is answered by one
\* re-prompt and changes neither the session store nor the queue.
C17_MalformedInputKeepsSession ==
    [][\A op \in Senders : \A c \in NotANumber \cup {<<"3">>, <<"5">>} :
         (/\ Handles(op, c)
          /\ RepromptFor(SessionState(operator_states, op), c) # None) =>
            /\ operator_states' = operator_states
            /\ forward_queue' = forward_queue
            /\ submitted' = submitted
            /\ welcome_messages' = welcome_messages
            /\ out' = <<Reply(op, RepromptFor(SessionState(operator_states, op), c), 0)>>
            /\ last_msg'.ret]_vars

\* "1+" was handled for a session that is choosing its lists and holds two
\* messages: it still does
C17_Witness ==
    /\ last_msg.msg.content = <<"1", "+">>
    /\ last_msg.state = WAITING_CHOICE
    /\ out = <<Reply(last_msg.sender, "invalid_selector", 0)>>
    /\ \E st \in SessionsOf(last_msg.sender) :
         st.state = WAITING_CHOICE /\ st.messages = <<TextMsg, ImageMsg>>

\* the admin's messages so far were the entry keyword, "1", one text, "1" and
\* "1": the task put first holds that one text for the groups "1" stands for
ForwardedToAll ==
    /\ inbound = 5
    /\ Len(submitted) = 1
    /\ submitted[1].messages = <<TextMsg>>
    /\ submitted[1].operator_id = "wxid_a1"

\* C18: after the entry keyword, "1", one text, "1" and "1" the session is gone
\* and one task is put; the summary of that task, which the worker does send when
\* no delivery fails, goes to the admin and reports as many successes as there
\* are forwardable groups, and no failure.
C18_EndToEnd ==
    ForwardedToAll =>
        /\ SessionsOf("wxid_a1") = {}
        /\ \A n \in 1..Len(JobSummaries(1)) :
             /\ JobSummaries(1)[n].to = "wxid_a1"
             /\ JobSummaries(1)[n].failed = 0
             /\ JobSummaries(1)[n].success = Cardinality(Forwardable)

\* the step handles one private message of sender op
HandlesFrom(op) ==
    /\ inbound' = inbound + 1
    /\ last_msg'.sender = op

\* C19: every session belongs to an admin, and a private message of a sender who
\* is not an admin is never consumed by the session state machine: it leaves the
\* sessions and the queue as they are, the entry keyword is answered by the
\* denial, and any other message gets no reply of the operator workflow at all.
C19_OnlyAdminsGetSessions ==
    /\ [](\A s \in operator_states : s.id \in get_admin_wxids)
    /\ [][\A op \in Senders \ get_admin_wxids : HandlesFrom(op) =>
            /\ operator_states' = operator_states
            /\ forward_queue' = forward_queue
            /\ submitted' = submitted
            /\ ~last_msg'.ret
            /\ out' = (IF Lower(last_msg'.msg.content) = NCC
                       THEN <<Reply(op, "denied", 0)>> ELSE <<>>) \o OtherHandlers(op)]_vars

\* a sender who is not an admin was just denied, while an admin has a session
C19_Witness ==
    /\ last_msg.sender \in Senders \ get_admin_wxids
    /\ last_msg.msg.content = NCC
    /\ out[1] = Reply(last_msg.sender, "denied", 0)
    /\ SessionsOf(last_msg.sender) = {}
    /\ operator_states # {}

\* the tasks put and not yet taken, as they were put
Waiting == SubSeq(submitted, dequeued + 1, Len(submitted))

\* the worker is between the get of a task and its status
Running == wpc # "get"

\* a step of the intake thread: a private message or a group rename is handled
IntakeStep == inbound' = inbound + 1

\* C20: a task that was put stays as it was put. The queue holds exactly the tasks
\* put and not yet taken, unchanged and in order, the task the worker runs is the
\* one that was put, every delivery of a job is for a group and a message of its
\* task, and its summary counts the messages and groups of that task; a step of the
\* intake thread (the exit token, the entry keyword, a collected message, another
\* selection, a change of the groups table) only appends to the queue and leaves
\* the running task alone.
C20_JobIsSnapshot ==
    /\ [](forward_queue = Waiting)
    /\ [](Running => task = submitted[dequeued])
    /\ [](\A n \in 1..Len(calls) :
            /\ calls[n].job \in 1..Len(submitted)
            /\ calls[n].msg \in 1..Len(submitted[calls[n].job].messages)
            /\ \E k \in 1..Len(submitted[calls[n].job].groups) :
                 submitted[calls[n].job].groups[k] = calls[n].group)
    /\ [](\A n \in 1..Len(reports) :
            /\ reports[n].to = submitted[reports[n].job].operator_id
            /\ reports[n].total_messages = Len(submitted[reports[n].job].messages)
            /\ reports[n].total_groups = Len(submitted[reports[n].job].groups))
    /\ [][IntakeStep =>
            /\ SubSeq(forward_queue', 1, Len(forward_queue)) = forward_queue
            /\ SubSeq(submitted', 1, Len(submitted)) = submitted
            /\ task' = task
            /\ <<wpc, gi, mi, retries, dequeued>>' = <<wpc, gi, mi, retries, dequeued>>]_vars

\* the task that was waiting has run to its summary with both of its messages
\* delivered to its group, although in the meantime its operator has put another
\* task and its target group has been renamed in the groups table
C20_Witness ==
    /\ Len(submitted) = 2
    /\ submitted[1] = QueuedTask
    /\ JobSummaries(1) # <<>>
    /\ JobSummaries(1)[1].success = 2
    /\ Delivered(1) = {<<"g3", 1>>, <<"g3", 2>>}
    /\ \E i \in 1..Len(groups) : groups[i].wxid = "g3" /\ groups[i].name = NEW_NAME

\* the step handles a private message and ends in the handler of the exception
RaisedStep ==
    /\ inbound' = inbound + 1
    /\ last_msg'.raised

C22_RefreshReplacesCache ==
    last_msg.sync = "ok" => Tables = source

\* C23: the groups get_groups_by_list_id returns for a list are members of the
\* list whose allow_forward flag is set.
C23_ListGroupsAreForwardable ==
    \A l \in ListIds :
        get_groups_by_list_id(l) = {w \in Forwardable : <<w, l>> \in group_lists}

\* C24: the intake thread makes no blocking call while it handles a message: no
\* download of content and no fetch from the directory source (and no delivery to
\* a group, no pacing sleep: the Delivery Adapter invocations of calls are all made
\* between the get of a task and its status).
C24_IntakeNeverBlocks ==
    /\ last_msg.waits = <<>>
    /\ calls # <<>> => dequeued >= 1

\* the handling of msg from the admin has an outcome within the bounds of the model
CanHandle(msg) ==
    \E r \in PrivateOutcomes(msg, "wxid_a1", operator_states) : WithinBounds(r)

\* C25: the intake thread never waits on the worker. Wherever the worker is inside
\* a job (sending, holding image_lock, in the backoff sleep, in a pacing sleep),
\* every private message of the admin can be handled to the end, the collection of
\* an image and the put of another task included; the handling acquires no lock
\* and leaves the worker where it is, and a put appends to the queue whatever its
\* length.
C25_IntakeNeverWaits ==
    /\ [](Running /\ inbound < MaxInputs =>
            \A msg \in ThreadMsgs : CanHandle(msg) => ENABLED processThread(msg))
    /\ [][IntakeStep => /\ UNCHANGED <<image_lock, wphase, wpc, gi, mi, retries, task>>
                        /\ Len(forward_queue') >= Len(forward_queue)
                        /\ last_msg'.during = wphase]_vars

\* an image was collected while the worker held image_lock, and the worker holds it still
C25_Witness ==
    /\ last_msg.during = "locked"
    /\ image_lock = "worker"
    /\ last_msg.msg.type = TYPE_IMAGE
    /\ \E n \in 1..Len(out) : out[n].kind = "collected"

\* C26: a refresh replaces the dataset as a whole. After a refresh that succeeded,
\* what the readers see is one version of the dataset: the tables (groups,
\* memberships, lists, admins) and the cache file hold the same dataset.
C26_RefreshIsAtomic ==
    last_msg.sync = "ok" => \E d \in Datasets : Tables = d /\ notion_cache = <<d>>

\* C27: the entry keyword sent during a session, whatever its state, puts the
\* admin in the root menu, and the message the session held before it is in no
\* task put afterwards and in no welcome configuration saved afterwards: a step
\* that enters WAITING_MESSAGE or WELCOME_COLLECTING from another state leaves the
\* session with no message.
C27_ReentryStartsOver ==
    /\ [](inbound = 1 => AdminIn(WAITING_CHOICE_MODE))
    /\ [](inbound >= 1 =>
            /\ \A n \in 1..Len(submitted) :
                  \A i \in 1..Len(submitted[n].messages) : submitted[n].messages[i] # StaleMsg
            /\ \A g \in GroupIds :
                  \A i \in 1..Len(welcome_messages[g]) : welcome_messages[g][i] # StaleMsg)
    /\ [][/\ (IntakeStep /\ Strip(Lower(last_msg'.msg.content)) = NCC =>
                AdminIn(WAITING_CHOICE_MODE)')
           /\ \A st \in {WAITING_MESSAGE, WELCOME_COLLECTING} :
                ~AdminIn(st) /\ AdminIn(st)' =>
                    StateOf(operator_states', "wxid_a1").messages = <<>>]_vars

\* after the entry keyword, a task was put: it holds what was collected since
C27_Witness ==
    /\ inbound >= 1
    /\ Len(submitted) = 1
    /\ submitted[1].messages = <<TextMsg>>

\* the messages the session of the admin holds
AdminMessages ==
    IF HasState(operator_states, "wxid_a1")
    THEN StateOf(operator_states, "wxid_a1").messages ELSE <<>>

\* an image was handled by a session in WAITING_MESSAGE
ImageStep ==
    /\ IntakeStep
    /\ last_msg'.msg.type = TYPE_IMAGE
    /\ AdminIn(WAITING_MESSAGE)

\* C28: in WAITING_MESSAGE an image is appended and acknowledged with the count
\* only when its download delivered the file: the acknowledgement comes after the
\* wait notice and carries the new length. When the download delivers no file,
\* times out or raises, the session is left as it was (same messages, same state),
\* nothing is put, and that image is in no session and in no task ever.
C28_ImageAppendedWhenMaterialized ==
    /\ [](/\ \A i \in 1..Len(AdminMessages) : AdminMessages[i] # FailedImage
          /\ \A n \in 1..Len(submitted) :
                \A i \in 1..Len(submitted[n].messages) :
                    submitted[n].messages[i] # FailedImage)
    /\ [][ImageStep =>
            /\ last_msg'.waits = <<"download_image">>
            /\ out'[1].kind = "image_wait"
            /\ AdminIn(WAITING_MESSAGE)'
            /\ submitted' = submitted
            /\ IF Acked(out')
               THEN /\ AdminMessages' = Append(AdminMessages, last_msg'.msg)
                    /\ out' = <<Reply("wxid_a1", "image_wait", 0),
                                Reply("wxid_a1", "collected", Len(AdminMessages'))>>
               ELSE /\ operator_states' = operator_states
                    /\ out'[2].kind \in {"image_failed", "image_timeout", "collect_error"}]_vars

\* the download of an image failed after another image was collected: the session
\* still collects and holds the first image only
C28_Witness ==
    /\ last_msg.msg = FailedImage
    /\ AdminIn(WAITING_MESSAGE)
    /\ AdminMessages = <<ImageMsg>>
    /\ out = <<Reply("wxid_a1", "image_wait", 0), Reply("wxid_a1", "image_timeout", 0)>>

\* C29: a session ends only by the exit token or by a completed workflow. A step
\* that removes the session of an operator handled the exit token, put a task on
\* the queue, or saved welcome messages.
C29_SessionEndsByExitOrCompletion ==
    [][\A op \in Senders :
          HasState(operator_states, op) /\ ~HasState(operator_states', op) =>
              \/ last_msg'.msg.content = <<"0">>
              \/ Len(submitted') > Len(submitted)
              \/ \E n \in 1..Len(out') : out'[n].kind = "welcome_saved"]_vars

\* attempt a of job j for the pair (g, m) was made and none of its invocations succeeded
AttemptFailed(j, g, m, a) ==
    LET of == {i \in 1..Len(calls) : /\ calls[i].job = j /\ calls[i].group = g
                                      /\ calls[i].msg = m /\ calls[i].attempt = a}
    IN  of # {} /\ \A i \in of : ~calls[i].ok

\* the pairs of job j whose MAX_RETRIES attempts all failed
FailedPairs(j) ==
    {p \in GroupIds \X (1..Len(task.messages)) :
        \A a \in 1..MAX_RETRIES : AttemptFailed(j, p[1], p[2], a)}

\* a pass of the retry loop that did not deliver
FailedPass == calls' # calls /\ attempt_ret' \in {"false", "raise"}

\* C30: the pairs counted as failed are those whose three attempts, one after the
\* other, all failed; none of them is also counted as a success. A pass that
\* raises is counted like one that returns failure: after the first and the
\* second the worker sleeps the backoff and tries the same pair again, after the
\* third it counts the failure and does not sleep the backoff.
C30_FailedAfterThreeAttempts ==
    /\ [](dequeued > 0 =>
            /\ failed_count = Cardinality(FailedPairs(dequeued))
            /\ success_count = Cardinality(Delivered(dequeued))
            /\ FailedPairs(dequeued) \cap Delivered(dequeued) = {})
    /\ [](wphase = "backoff" =>
            /\ wpc = "send"
            /\ retries \in 1..(MAX_RETRIES - 1)
            /\ attempt_ret \in {"false", "raise"}
            /\ calls[Len(calls)].attempt = retries
            /\ calls[Len(calls)].group = task.groups[gi]
            /\ calls[Len(calls)].msg = mi
            /\ <<task.groups[gi], mi>> \notin FailedPairs(dequeued) \cup Delivered(dequeued))
    /\ [][FailedPass =>
            /\ success_count' = success_count
            /\ IF retries + 1 < MAX_RETRIES
               THEN /\ retries' = retries + 1
                    /\ failed_count' = failed_count
                    /\ wphase' = "backoff"
                    /\ <<gi', mi'>> = <<gi, mi>>
               ELSE /\ retries' = 0
                    /\ failed_count' = failed_count + 1
                    /\ wphase' = "pacing"]_vars

\* the third attempt of a pair raised after two that failed: the pair is counted
\* as failed and the worker is in the pacing sleep
C30_Witness ==
    /\ failed_count = 1
    /\ success_count = 0
    /\ attempt_ret = "raise"
    /\ wphase = "pacing"
    /\ FailedPairs(1) = {<<"g1", 1>>}
    /\ Len(calls) = MAX_RETRIES

\* C31: under a fair scheduler every task put on the queue is taken and run to
\* its end, and its operator gets a reply (the summary or the error notice),
\* whatever failed while an earlier task was processed.
C31_EveryJobCompletes ==
    <>(\A n \in 1..Len(submitted) :
          \E k \in 1..Len(reports) :
              reports[k].job = n /\ reports[k].to = submitted[n].operator_id)

\* a step of the worker thread
WorkerStep ==
    \/ dequeued' # dequeued
    \/ calls' # calls
    \/ reports' # reports
    \/ wpc' # wpc

\* C32: the worker never creates, changes or removes a session. Every step of the
\* worker leaves the session store as it is, and the step that sends the summary
\* of a task leaves the session of its operator, if there is one, in the same
\* state with the same messages.
C32_WorkerLeavesSessions ==
    [][WorkerStep =>
         /\ operator_states' = operator_states
         /\ reports' # reports =>
               /\ reports'[Len(reports')].to = task.operator_id
               /\ HasState(operator_states', task.operator_id)
                     = HasState(operator_states, task.operator_id)
               /\ {st \in operator_states' : st.id = task.operator_id}
                     = SessionsOf(task.operator_id)]_vars

\* the summary of the admin's task was sent while the admin was collecting in a
\* session: the session is still there with its message
C32_Witness ==
    /\ wpc = "get"
    /\ Len(reports) = 1
    /\ reports[1].kind = "summary"
    /\ reports[1].to = "wxid_a1"
    /\ AdminIn(WAITING_MESSAGE)
    /\ AdminMessages = <<TextMsg>>

\* the completion token is handled by a session in WELCOME_COLLECTING
WelcomeDoneStep ==
    /\ IntakeStep
    /\ AdminIn(WELCOME_COLLECTING)
    /\ last_msg'.sender = "wxid_a1"
    /\ last_msg'.msg.content = <<"1">>

\* C33: the completion token in WELCOME_COLLECTING. With no collected message the
\* session and the welcome configuration stay as they are; with collected messages
\* they are written, in the order collected, as the configuration of the group
\* chosen before and of no other group, the session is removed and no task is put.
C33_WelcomeSaveWritesCollected ==
    [][WelcomeDoneStep =>
         LET st == StateOf(operator_states, "wxid_a1")
         IN  /\ submitted' = submitted
             /\ forward_queue' = forward_queue
             /\ IF st.messages = <<>>
                THEN /\ operator_states' = operator_states
                     /\ welcome_messages' = welcome_messages
                ELSE /\ ~HasState(operator_states', "wxid_a1")
                     /\ welcome_messages' =
                            [welcome_messages EXCEPT ![st.current_group] = st.messages]]_vars

\* a group system message "修改群名为" was handled
RenameStep == IntakeStep /\ last_msg'.msg.type = 10000

\* the rows of gs without their names
Unnamed(gs) == {[gs[i] EXCEPT !.name = ""] : i \in 1..Len(gs)}

\* C34: a rename changes the name of the group only. The flags and the
\* welcome_url of every row and the memberships are the same after the event as
\* before it, and so is what the all-groups selector and each list resolve to.
C34_RenameChangesNameOnly ==
    [][RenameStep =>
         /\ group_lists' = group_lists
         /\ Unnamed(groups') = Unnamed(groups)
         /\ ResolveGroups(<<ALL_GROUPS>>)' = ResolveGroups(<<ALL_GROUPS>>)
         /\ \A l \in ListIds : ResolveGroups(<<l>>)' = ResolveGroups(<<l>>)]_vars

\* the sleeps of one kind, in order
SleepsOf(kind) == SelectSeq(sleeps, LAMBDA z : z.kind = kind)

\* the groups (1-based) whose messages are all settled
GroupsDone == IF wpc = "send" THEN gi - 1 ELSE Len(task.groups)

\* the pairs settled so far
PairsDone == success_count + failed_count

\* C35: the extra pause is made before the groups at the 0-based positions 10, 20,
\* ... and before no other group, once each and after every invocation for the
\* groups before it; one group pause follows each group and one message pause
\* follows each message, delivered or failed.
C35_Pauses ==
    dequeued = 1 =>
        LET K == Len(task.messages)
            extra == SleepsOf("extra")
            group == SleepsOf("group")
            message == SleepsOf("message")
        IN  /\ \A n \in 1..Len(extra) :
                  /\ extra[n].group = 10 * n + 1
                  /\ \A i \in 1..Len(calls) :
                        i <= extra[n].at <=> PositionOf(calls[i].group) < extra[n].group
            /\ Len(extra) = (IF wpc = "send" THEN gi - 1 ELSE Len(task.groups) - 1) \div 10
            /\ Len(group) = GroupsDone
            /\ \A n \in 1..Len(group) : group[n].group = n
            /\ Len(message) = PairsDone
            /\ \A n \in 1..Len(message) :
                  /\ message[n].group = ((n - 1) \div K) + 1
                  /\ message[n].msg = ((n - 1) % K) + 1
            /\ PairsDone = GroupsDone * K + (IF wpc = "send" THEN mi - 1 ELSE 0)

\* the task is finished with one pair failed: two extra pauses, before the 11th and
\* the 21st group, 21 group pauses and 42 message pauses
C35_Witness ==
    /\ wpc = "report"
    /\ failed_count = 1
    /\ success_count = 41
    /\ Len(SleepsOf("extra")) = 2
    /\ SleepsOf("extra")[2].group = 21
    /\ Len(SleepsOf("group")) = 21
    /\ Len(SleepsOf("message")) = 42

\* the reply "started" to the operator of the job was sent while handling the
\* message that is being handled now
StartedSent(job) ==
    /\ intake_pc = "second"
    /\ \E k \in 1..Len(out) :
         out[k] = Reply(job.operator_id, "started", Len(job.groups))

\* C36: the reply that the dispatch has started is sent before the job is put on
\* the queue; the worker takes only jobs that were put, and every Delivery
\* Adapter invocation and every summary is of a job the worker took
C36_StartedBeforeVisible ==
    [][/\ \A n \in (Len(submitted) + 1)..Len(submitted') : StartedSent(submitted'[n])
       /\ dequeued' > dequeued => /\ dequeued' <= Len(submitted)
                                  /\ task' = submitted[dequeued']
       /\ \A k \in (Len(calls) + 1)..Len(calls') : calls'[k].job <= dequeued
       /\ \A k \in (Len(reports) + 1)..Len(reports') : reports'[k].job <= dequeued]_vars

\* the reply is out, the job is not on the queue yet, and the worker is idle
C36_Witness ==
    /\ intake_pc = "second"
    /\ \E k \in 1..Len(out) : out[k].kind = "started"
    /\ wpc = "get"
    /\ forward_queue = <<>>
    /\ dequeued = Len(submitted)
    /\ Len(reports) = 1

\* C37: handling a message of operator A leaves the session of every other
\* operator as it was (state, collected messages, selected welcome group), and a
\* task put for A holds exactly the messages of A's session
C37_SessionsIndependent ==
    [][inbound' # inbound =>
          LET A == last_msg'.sender
          IN  /\ \A B \in Operators \ {A} :
                    {st \in operator_states' : st.id = B} = {st \in operator_states : st.id = B}
              /\ \A n \in (Len(submitted) + 1)..Len(submitted') :
                    /\ submitted'[n].operator_id = A
                    /\ HasState(operator_states, A)
                    /\ submitted'[n].messages = StateOf(operator_states, A).messages]_vars

\* the one operator has put a task of its text while the other still collects
\* after its image
C37_Witness ==
    /\ last_msg.sender = "wxid_a1"
    /\ Len(submitted) = 1
    /\ submitted[1].operator_id = "wxid_a1"
    /\ submitted[1].messages = <<TextMsg>>
    /\ ~HasState(operator_states, "wxid_a1")
    /\ HasState(operator_states, SPECIAL_SENDER)
    /\ StateOf(operator_states, SPECIAL_SENDER).state = WAITING_MESSAGE
    /\ StateOf(operator_states, SPECIAL_SENDER).messages = <<ImageMsg, TextMsg>>

\* C38: when the handling of an operator's message ends by an exception, the
\* operator's session is as it was before the message: same state, same
\* collected messages
C38_RaiseLeavesSession ==
    [][inbound' # inbound /\ last_msg'.raised =>
          {st \in operator_states' : st.id = last_msg'.sender}
             = {st \in operator_states : st.id = last_msg'.sender}]_vars

\* the collected messages of st, or those of them that can be stored, are the
\* configuration of the chosen group after the step
Persisted(st) ==
    \E keep \in [1..Len(st.messages) -> BOOLEAN] :
       /\ SavedMessages(st.messages, keep) # <<>>
       /\ welcome_messages'[st.current_group] = SavedMessages(st.messages, keep)

\* C39: the confirmation that the welcome messages were saved is sent only if
\* they were persisted for the chosen group; when the write fails or no collected
\* message can be stored, no confirmation is sent and the stored welcome
\* messages remain
C39_ConfirmedOnlyIfPersisted ==
    [][WelcomeDoneStep /\ StateOf(operator_states, "wxid_a1").messages # <<>> =>
          \/ Persisted(StateOf(operator_states, "wxid_a1"))
          \/ /\ \A k \in 1..Len(out') : out'[k].kind # "welcome_saved"
             /\ welcome_messages' = welcome_messages]_vars

\* a message of the admin was handled while the admin had a session
ActiveStep ==
    /\ IntakeStep
    /\ last_msg'.sender = "wxid_a1"
    /\ HasState(operator_states, "wxid_a1")
    /\ StateOf(operator_states, "wxid_a1").state # IDLE

\* the tokens that are not collected: exit, entry keyword, proceed
Token(content) == content \in {<<"0">>, <<"1">>} \/ Strip(Lower(content)) = NCC

\* C40: a private message of an operator with a session is consumed by the
\* session state machine (handle_message returns True) and no other handler
\* replies to it; in the collecting states every message but the exit, entry and
\* proceed tokens is appended to the collected messages
C40_SessionConsumesEverything ==
    [][ActiveStep =>
          LET st == StateOf(operator_states, "wxid_a1")
          IN  /\ last_msg'.ret
              /\ \A k \in 1..Len(out') :
                    out'[k].kind \notin {"scheduler", "friend_welcome", "other_handler"}
              /\ st.state \in {WAITING_MESSAGE, WELCOME_COLLECTING}
                    /\ ~Token(last_msg'.msg.content)
                  => /\ HasState(operator_states', "wxid_a1")
                     /\ StateOf(operator_states', "wxid_a1").messages
                            = Append(st.messages, last_msg'.msg)]_vars

====
